---------------------------- MODULE Spec2Model ----------------------------
(***************************************************************************)
(* A model of retina-py: the layered SQL safety validator and the two      *)
(* components that call it (app/pipelines/haystack_components/sql.py), the *)
(* per-organization registries of document stores and pipelines            *)
(* (app/storage/document_store_manager.py, app/pipelines/indexing.py,      *)
(* app/pipelines/query.py) and the indexing run.                           *)
(*                                                                         *)
(* SQL text is a sequence of atoms.  An atom is a keyword, an identifier,  *)
(* a digit, a white-space character or a punctuation mark; the regular     *)
(* expressions of the validator are translated to matchers over atoms.     *)
(* A word atom consists of \w characters only and every other atom of     *)
(* non-\w characters only, so a word boundary \b lies exactly between a    *)
(* word atom and a neighbour that is not one (or the end of the text).     *)
(***************************************************************************)
EXTENDS Integers, Sequences, FiniteSets, TLC

VARIABLES
    sql,          \* the SQL string handed to the validator / to SQLQuery.run
    useLLM,       \* SQLSafetyValidator.use_llm of the validator under test
    vpc,          \* "idle" before the call, the name of the call after it
    ruleVerdict,  \* result of _rule_based_safety_check in the call (if it ran)
    verdict,      \* result of is_safe_query in the call (if it ran)
    llmReply,     \* what self.llm.run did in the call
    llmConsulted, \* whether the call reached self.llm.run
    executed,     \* the statements SQLQuery.run handed to conn.execute
    runResult,    \* what SQLQuery.run returned or raised
    gates         \* the is_safe_query calls made by the two components, in order

valVars ==
    <<sql, useLLM, vpc, ruleVerdict, verdict, llmReply, llmConsulted, executed, runResult,
      gates>>

VARIABLES
    llmConfig,    \* the llm_config the components were built from
    genUseLLM,    \* SQLGenerator.safety_validator.use_llm
    genReply,     \* reply of SQLGenerator.llm to the generation prompt
    genResult     \* what SQLGenerator.run returned or raised

genVars == <<llmConfig, genUseLLM, genReply, genResult>>

VARIABLES
    autoCreate,          \* configuration["qdrant"]["auto_create_collection"]
    collections,         \* names of the collections that exist on the Qdrant server
    points,              \* the chunks stored in each collection
    heap,                \* the stores and pipelines constructed so far, by identity
    documentStores,      \* DocumentStoreManager._document_stores
    processingPipelines, \* IndexingPipelinesFactory._processing_pipelines
    queryPipelines,      \* QueryPipelinesFactory._query_pipelines
    stack,               \* the call stack of each caller
    log,                 \* the finished calls with what they returned or raised
    tempFiles,           \* the callers whose temporary file exists
    evidence             \* what the last run_query retrieved

regVars ==
    <<autoCreate, collections, points, heap, documentStores, processingPipelines,
      queryPipelines, stack, log, tempFiles, evidence>>

VARIABLES
    qrun                 \* the run_query call in progress: its arguments, the
                         \* components that ran, their outputs and its outcome

queryVars == <<qrun>>

VARIABLES
    tasks                \* the index_document tasks of the queue, by job: payload,
                         \* state, request.retries and result

taskVars == <<tasks>>

VARIABLES
    detected             \* the detect_file_type call: its two paths and the
                         \* type it returned

detectVars == <<detected>>

VARIABLES
    instance,            \* cls._instance of each singleton class (0 is None)
    initialized,         \* cls._initialized of each singleton class
    construct,           \* the constructor call in progress: class, position, self
    made                 \* the constructor calls that returned, with their object

singletonVars == <<instance, initialized, construct, made>>

-----------------------------------------------------------------------------
(* Bounds of the model.                                                    *)
MaxLen == 3       \* longest string over InputAtoms
MaxTail == 3      \* longest body over TailAtoms after "SELECT "
MaxSegments == 4  \* most literals and tokens after "SELECT " in a quoted input
MaxRunLen == 3    \* longest string over RunAtoms handed to SQLQuery.run
MaxCalls == 3     \* most calls made on the registries in one behaviour
MaxJobs == 2      \* most tasks dispatched in one behaviour
MaxPathLen == 3   \* longest path over PathAtoms handed to detect_file_type
MaxConstructions == 3  \* most constructor calls of the singletons in one behaviour

-----------------------------------------------------------------------------
(* Atoms.                                                                  *)

AllowedOperations == {"SELECT", "WITH", "SHOW", "DESCRIBE", "DESC", "EXPLAIN", "PRAGMA"}

DangerousKeywords ==
    {"DROP", "DELETE", "UPDATE", "INSERT", "TRUNCATE", "ALTER", "CREATE", "REPLACE",
     "MERGE", "UPSERT", "ATTACH", "DETACH", "VACUUM", "REINDEX", "ANALYZE"}

\* The alternation (DROP|DELETE|UPDATE|INSERT|TRUNCATE|ALTER|CREATE) of the
\* first three dangerous_patterns.
PatternVerbs == {"DROP", "DELETE", "UPDATE", "INSERT", "TRUNCATE", "ALTER", "CREATE"}

WordAtoms ==
    AllowedOperations \cup DangerousKeywords \cup
    {"X", "EXEC", "EXECUTE", "OR", "AND", "TRUE", "NULL", "IS", "UNION", "ALL",
     "1", "0", "XP_", "SP_", "STRING", "SQL"}

IsWs(a) == a \in {" ", "\n"}

IsWordAtom(a) == a \in WordAtoms

\* str.upper() on one atom.
Upper(a) ==
    CASE a = "select" -> "SELECT"
      [] a = "drop" -> "DROP"
      [] a = "x" -> "X"
      [] a = "xp_" -> "XP_"
      [] a = "sp_" -> "SP_"
      [] a = "sql" -> "SQL"
      [] OTHER -> a

UpperSeq(q) == [i \in 1..Len(q) |-> Upper(q[i])]

RECURSIVE StripLeft(_)
StripLeft(q) == IF q # <<>> /\ IsWs(Head(q)) THEN StripLeft(Tail(q)) ELSE q

RECURSIVE StripRight(_)
StripRight(q) ==
    IF q # <<>> /\ IsWs(q[Len(q)]) THEN StripRight(SubSeq(q, 1, Len(q) - 1)) ELSE q

\* str.strip()
Strip(q) == StripRight(StripLeft(q))

\* re.sub(r'\s+', ' ', q)
RECURSIVE CollapseWs(_)
CollapseWs(q) ==
    IF q = <<>> THEN <<>>
    ELSE IF IsWs(Head(q)) THEN <<" ">> \o CollapseWs(StripLeft(q))
    ELSE <<Head(q)>> \o CollapseWs(Tail(q))

\* normalized_query of _rule_based_safety_check
NormalizeQuery(query) == CollapseWs(Strip(UpperSeq(query)))

RECURSIVE TakeWord(_)
TakeWord(q) ==
    IF q = <<>> \/ IsWs(Head(q)) THEN <<>> ELSE <<Head(q)>> \o TakeWord(Tail(q))

\* normalized_query.split()[0], or the empty word
FirstWord(nq) == TakeWord(StripLeft(nq))

\* A variant that only looks at how the first word starts (startswith).
FirstWordPrefixAllowed(nq) ==
    LET w == FirstWord(nq) IN Len(w) >= 1 /\ w[1] \in AllowedOperations

\* first_word in self.allowed_operations
FirstWordAllowed(nq) ==
    LET w == FirstWord(nq) IN Len(w) = 1 /\ w[1] \in AllowedOperations

\* Least j >= i with q[j] = a, or 0.
RECURSIVE IndexOf(_, _, _)
IndexOf(q, a, i) ==
    IF i > Len(q) THEN 0 ELSE IF q[i] = a THEN i ELSE IndexOf(q, a, i + 1)

\* re.sub(qu + "[^" + qu + "]*" + qu, " " + qu + "STRING" + qu + " ", q) from i on
RECURSIVE MaskFrom(_, _, _)
MaskFrom(q, qu, i) ==
    IF i > Len(q) THEN <<>>
    ELSE IF q[i] = qu
         THEN LET j == IndexOf(q, qu, i + 1) IN
              IF j = 0 THEN SubSeq(q, i, Len(q))
              ELSE <<" ", qu, "STRING", qu, " ">> \o MaskFrom(q, qu, j + 1)
         ELSE <<q[i]>> \o MaskFrom(q, qu, i + 1)

\* query_without_strings: single-quoted spans first, then double-quoted ones
QueryWithoutStrings(q) == MaskFrom(MaskFrom(q, "'", 1), "\"", 1)

\* _has_dangerous_keywords_in_context
HasDangerousKeywordsInContext(q) ==
    LET m == QueryWithoutStrings(q) IN
    \E i \in 1..Len(m) :
        /\ m[i] \in DangerousKeywords
        /\ (i = 1 \/ ~IsWordAtom(m[i - 1]))
        /\ (i = Len(m) \/ ~IsWordAtom(m[i + 1]))

\* Position after \s* from i on.
RECURSIVE SkipWs(_, _)
SkipWs(q, i) == IF i <= Len(q) /\ IsWs(q[i]) THEN SkipWs(q, i + 1) ELSE i

\* Position after \s+ from i on, or 0 when there is no white space at i.
SkipWs1(q, i) == IF i <= Len(q) /\ IsWs(q[i]) THEN SkipWs(q, i + 1) ELSE 0

At(q, i, a) == i >= 1 /\ i <= Len(q) /\ q[i] = a

AtIn(q, i, S) == i >= 1 /\ i <= Len(q) /\ q[i] \in S

-----------------------------------------------------------------------------
(* self.dangerous_patterns, searched in the normalized (unmasked) query.   *)

\* r";\s*(DROP|DELETE|UPDATE|INSERT|TRUNCATE|ALTER|CREATE)"
MultiStatementPattern(q) ==
    \E i \in 1..Len(q) : q[i] = ";" /\ AtIn(q, SkipWs(q, i + 1), PatternVerbs)

\* r"--.*?(DROP|...)" with re.DOTALL
LineCommentPattern(q) ==
    \E i \in 1..Len(q) : q[i] = "--" /\ \E j \in (i + 1)..Len(q) : q[j] \in PatternVerbs

\* Number of atoms taken by a "/*" that starts at atom i (0: none starts there).
\* Two adjacent "*/" atoms read "*/*/", which holds "/*" across their border.
BlockOpenLen(q, i) ==
    IF q[i] = "/*" THEN 1 ELSE IF q[i] = "*/" /\ At(q, i + 1, "*/") THEN 2 ELSE 0

\* A "*/" that starts at atom k; two adjacent "/*" atoms read "/*/*".
BlockCloseAt(q, k) == q[k] = "*/" \/ (q[k] = "/*" /\ At(q, k + 1, "/*"))

\* r"/\*.*?(DROP|...).*?\*/" with re.DOTALL
BlockCommentPattern(q) ==
    \E i \in 1..Len(q) :
        /\ BlockOpenLen(q, i) > 0
        /\ \E j \in (i + BlockOpenLen(q, i))..Len(q) :
              /\ q[j] \in PatternVerbs
              /\ \E k \in (j + 1)..Len(q) : BlockCloseAt(q, k)

\* r"EXEC\s*\(" and r"EXECUTE\s*\("
CallPattern(q, name) ==
    \E i \in 1..Len(q) : q[i] = name /\ At(q, SkipWs(q, i + 1), "(")

\* r"xp_" and r"sp_" with re.IGNORECASE
ProcPrefixPattern(q, prefix) == \E i \in 1..Len(q) : q[i] = prefix

\* Index (1..7) of the first dangerous pattern found in q, or 0.
DangerousPatternMatch(q) ==
    IF MultiStatementPattern(q) THEN 1
    ELSE IF LineCommentPattern(q) THEN 2
    ELSE IF BlockCommentPattern(q) THEN 3
    ELSE IF CallPattern(q, "EXEC") THEN 4
    ELSE IF CallPattern(q, "EXECUTE") THEN 5
    ELSE IF ProcPrefixPattern(q, "XP_") THEN 6
    ELSE IF ProcPrefixPattern(q, "SP_") THEN 7
    ELSE 0

-----------------------------------------------------------------------------
(* injection_patterns of _check_sql_injection_patterns, searched in the    *)
(* query with its quoted spans masked.                                     *)

\* Position after '[^']*' from i on, or 0.
QuotedSpanEnd(q, i) ==
    IF At(q, i, "'")
    THEN LET j == IndexOf(q, "'", i + 1) IN IF j = 0 THEN 0 ELSE j + 1
    ELSE 0

\* r"'\s*OR\s*'" and r"'\s*AND\s*'"
QuoteWordQuote(q, w) ==
    \E i \in 1..Len(q) :
        /\ q[i] = "'"
        /\ At(q, SkipWs(q, i + 1), w)
        /\ At(q, SkipWs(q, SkipWs(q, i + 1) + 1), "'")

\* r"'\s*;\s*"
QuoteSemicolon(q) == \E i \in 1..Len(q) : q[i] = "'" /\ At(q, SkipWs(q, i + 1), ";")

\* Position after r"'\s*OR\s+" for the quote at i, or 0.
AfterQuoteOr(q, i) ==
    IF q[i] = "'" /\ At(q, SkipWs(q, i + 1), "OR")
    THEN SkipWs1(q, SkipWs(q, i + 1) + 1)
    ELSE 0

\* r"'\s*OR\s+1\s*=\s*1"
OrOneEqualsOne(q) ==
    \E i \in 1..Len(q) :
        LET j == AfterQuoteOr(q, i) IN
        /\ At(q, j, "1")
        /\ At(q, SkipWs(q, j + 1), "=")
        /\ At(q, SkipWs(q, SkipWs(q, j + 1) + 1), "1")

\* r"'\s*OR\s+TRUE"
OrTrue(q) == \E i \in 1..Len(q) : At(q, AfterQuoteOr(q, i), "TRUE")

\* r"'\s*OR\s+'[^']*'\s*=\s*'[^']*'"
OrQuotedEquals(q) ==
    \E i \in 1..Len(q) :
        LET j == AfterQuoteOr(q, i)
            k == IF j = 0 THEN 0 ELSE QuotedSpanEnd(q, j)
            e == IF k = 0 THEN 0 ELSE SkipWs(q, k)
        IN  /\ At(q, e, "=")
            /\ QuotedSpanEnd(q, SkipWs(q, e + 1)) # 0

\* r"0\s*=\s*0"
ZeroEqualsZero(q) ==
    \E i \in 1..Len(q) :
        /\ q[i] = "0"
        /\ At(q, SkipWs(q, i + 1), "=")
        /\ At(q, SkipWs(q, SkipWs(q, i + 1) + 1), "0")

\* r"NULL\s*IS\s*NULL"
NullIsNull(q) ==
    \E i \in 1..Len(q) :
        /\ q[i] = "NULL"
        /\ At(q, SkipWs(q, i + 1), "IS")
        /\ At(q, SkipWs(q, SkipWs(q, i + 1) + 1), "NULL")

\* r"[;]\s*UNION\s+(ALL\s+)?SELECT" and r"'\s*UNION\s+(ALL\s+)?SELECT"
UnionSelectAfter(q, lead) ==
    \E i \in 1..Len(q) :
        LET j == SkipWs(q, i + 1)
            k == IF At(q, j, "UNION") THEN SkipWs1(q, j + 1) ELSE 0
            m == IF At(q, k, "ALL") THEN SkipWs1(q, k + 1) ELSE 0
        IN  /\ q[i] = lead
            /\ (At(q, k, "SELECT") \/ At(q, m, "SELECT"))

\* _check_sql_injection_patterns
CheckSqlInjectionPatterns(q) ==
    LET m == QueryWithoutStrings(q) IN
    \/ QuoteWordQuote(m, "OR")
    \/ QuoteWordQuote(m, "AND")
    \/ QuoteSemicolon(m)
    \/ OrOneEqualsOne(m)
    \/ OrTrue(m)
    \/ OrQuotedEquals(m)
    \/ ZeroEqualsZero(m)
    \/ NullIsNull(m)
    \/ UnionSelectAfter(m, ";")
    \/ UnionSelectAfter(m, "'")

-----------------------------------------------------------------------------
(* The validator.  A verdict is the tuple (is_safe, reason) of the code;   *)
(* the reason is kept as the fixed part of the message.                    *)

Verdict(s, r) == [safe |-> s, reason |-> r]

NoVerdict == Verdict(FALSE, "not run")

\* _rule_based_safety_check
RuleBasedSafetyCheck(query) ==
    LET nq == NormalizeQuery(query) IN
    IF ~FirstWordAllowed(nq)
    THEN Verdict(FALSE, "Query must start with allowed operations")
    ELSE IF HasDangerousKeywordsInContext(nq)
    THEN Verdict(FALSE, "Dangerous keyword detected in executable context")
    ELSE IF DangerousPatternMatch(nq) # 0
    THEN Verdict(FALSE, "Dangerous pattern detected matching")
    ELSE IF CheckSqlInjectionPatterns(nq)
    THEN Verdict(FALSE, "Potential SQL injection pattern detected")
    ELSE Verdict(TRUE, "Query passed rule-based safety checks")

\* What self.llm.run(prompt=...)["replies"][0] does: it raises, or yields a text.
LLMRaises == [raises |-> TRUE, text |-> <<>>]

LLMSays(t) == [raises |-> FALSE, text |-> t]

NoReply == [raises |-> FALSE, text |-> <<"not called">>]

\* response.startswith(prefix)
StartsWith(response, prefix) == Len(response) >= 1 /\ response[1] = prefix

\* A variant that lets a reply of neither shape pass.
LLMBasedFailOpen(query, reply) ==
    IF reply.raises THEN RuleBasedSafetyCheck(query)
    ELSE LET response == Strip(reply.text) IN
         IF StartsWith(response, "UNSAFE:") THEN Verdict(FALSE, "LLM validation failed")
         ELSE Verdict(TRUE, "LLM validation passed")

\* A variant that rejects the query when self.llm.run raises.
LLMBasedFailClosed(query, reply) ==
    IF reply.raises THEN Verdict(FALSE, "LLM validation error")
    ELSE LET response == Strip(reply.text) IN
         IF StartsWith(response, "SAFE:") THEN Verdict(TRUE, "LLM validation passed")
         ELSE IF StartsWith(response, "UNSAFE:") THEN Verdict(FALSE, "LLM validation failed")
         ELSE Verdict(FALSE, "LLM validation inconclusive")

\* _llm_based_safety_check
LLMBasedSafetyCheck(query, reply) ==
    IF reply.raises THEN RuleBasedSafetyCheck(query)
    ELSE LET response == Strip(reply.text) IN
         IF StartsWith(response, "SAFE:") THEN Verdict(TRUE, "LLM validation passed")
         ELSE IF StartsWith(response, "UNSAFE:") THEN Verdict(FALSE, "LLM validation failed")
         ELSE Verdict(FALSE, "LLM validation inconclusive")

\* not query or not query.strip()
IsBlank(query) == query = <<>> \/ Strip(query) = <<>>

\* A variant of is_safe_query that asks the backend before the rule layer.
ConsultsBeforeRules(query, use_llm) == ~IsBlank(query) /\ use_llm

\* Whether is_safe_query reaches self.llm.run for this query.
ConsultsLLM(query, use_llm) ==
    ~IsBlank(query) /\ RuleBasedSafetyCheck(query).safe /\ use_llm

\* is_safe_query
IsSafeQuery(query, use_llm, reply) ==
    IF IsBlank(query) THEN Verdict(FALSE, "Empty query provided")
    ELSE LET rule_based_result == RuleBasedSafetyCheck(query) IN
         IF ~rule_based_result.safe THEN rule_based_result
         ELSE IF use_llm THEN LLMBasedSafetyCheck(query, reply)
         ELSE rule_based_result

-----------------------------------------------------------------------------
(* SQLQuery.run                                                            *)

\* conn.execute("PRAGMA busy_timeout = 30000"), a fixed statement of the code
TimeoutPragma == <<"PRAGMA", " ", "busy_timeout", " ", "=", " ", "30000">>

NotRun ==
    [status |-> "not run", message |-> "", reason |-> "", query |-> <<>>, documents |-> 0,
     fetched |-> 0, rows |-> 0]

Raised(msg, why, query) ==
    [status |-> "ValueError", message |-> msg, reason |-> why, query |-> query,
     documents |-> 0, fetched |-> 0, rows |-> 0]

Returned(query, n) ==
    [status |-> "documents", message |-> "SQL Results", reason |-> "", query |-> query,
     documents |-> n, fetched |-> 0, rows |-> 0]

\* max_rows = 1000
MaxRows == 1000

\* How many rows cur.fetchall() returns: none, as many as max_rows, more.
RowCounts == {0, MaxRows, MaxRows + 1}

\* A document with every row that was fetched.
KeepAllRows(fetched) == fetched

\* if len(rows) > max_rows: rows = rows[:max_rows]; the number of rows left
LimitRows(fetched) == IF fetched > MaxRows THEN MaxRows ELSE fetched

\* The one document of a call that returned, made of the rows that are left.
WithRows(result, fetched) ==
    IF result.status = "documents"
    THEN [result EXCEPT !.fetched = fetched, !.rows = LimitRows(fetched)]
    ELSE result

\* What the structured backend does in one call.
DbOutcomes == {"rows", "sqlite3.Error on connect", "sqlite3.Error on execute"}

\* A variant of run that does not look at the verdict before it executes.
SQLQueryRunUnchecked(query, use_llm, reply, db) ==
    [verdict |-> IsSafeQuery(query, use_llm, reply),
     executed |-> <<TimeoutPragma, query>>,
     result |-> Returned(query, 1)]

\* SQLQuery.run: the verdict of its validator, the statements handed to
\* conn.execute in the call, and what the call returns or raises.
SQLQueryRun(query, use_llm, reply, db) ==
    LET v == IsSafeQuery(query, use_llm, reply) IN
    IF ~v.safe
    THEN [verdict |-> v, executed |-> <<>>,
          result |-> Raised("SQL query failed safety validation", v.reason, query)]
    ELSE IF db = "sqlite3.Error on connect"
    THEN [verdict |-> v, executed |-> <<>>,
          result |-> Raised("Database error executing query", "", query)]
    ELSE IF db = "sqlite3.Error on execute"
    THEN [verdict |-> v, executed |-> <<TimeoutPragma, query>>,
          result |-> Raised("Database error executing query", "", query)]
    ELSE [verdict |-> v, executed |-> <<TimeoutPragma, query>>,
          result |-> Returned(query, 1)]

-----------------------------------------------------------------------------
(* SQLGenerator.run and the construction of the two SQL components.        *)

\* self.use_llm = llm_model and llm_base_url, as a truth value ("" stands for
\* None and for the empty string)
UseLLM(llm_model, llm_base_url) == llm_model # "" /\ llm_base_url # ""

\* A variant of the construction that gives SQLQuery the connection string
\* alone, so that its validator is built from the defaults.
BuildWithoutLLMArguments(llm_config) ==
    [sql_generator |-> UseLLM(llm_config.model, llm_config.base_url),
     sql_exec |-> UseLLM("", "")]

\* build_query_pipeline: use_llm of the validators of sql_generator and sql_exec
BuildQueryPipeline(llm_config) ==
    [sql_generator |-> UseLLM(llm_config.model, llm_config.base_url),
     sql_exec |-> UseLLM(llm_config.model, llm_config.base_url)]

\* The code fence: three backquotes.
Fence == "<fence>"

\* Position after the opening fence, "sql" and \s+ when the regex of the fence
\* (fence sql\s+(.*?) fence, re.S | re.I) can match from i on, or 0.
FenceBodyStart(reply, i) ==
    IF /\ i + 1 <= Len(reply)
       /\ reply[i] = Fence
       /\ Upper(reply[i + 1]) = "SQL"
       /\ SkipWs1(reply, i + 2) # 0
       /\ IndexOf(reply, Fence, SkipWs1(reply, i + 2)) # 0
    THEN SkipWs1(reply, i + 2)
    ELSE 0

\* re.search finds a fence
HasFence(reply) == \E i \in 1..Len(reply) : FenceBodyStart(reply, i) # 0

\* m.group(1).strip() of the leftmost match
FencedSql(reply) ==
    LET i == CHOOSE n \in 1..Len(reply) :
                 /\ FenceBodyStart(reply, n) # 0
                 /\ \A m \in 1..(n - 1) : FenceBodyStart(reply, m) = 0
        k == FenceBodyStart(reply, i)
        j == IndexOf(reply, Fence, k)
    IN  Strip(SubSeq(reply, k, j - 1))

\* Least j >= i where an allowed operation starts, or 0.
RECURSIVE AllowedFrom(_, _)
AllowedFrom(q, i) ==
    IF i > Len(q) THEN 0
    ELSE IF Upper(q[i]) \in AllowedOperations THEN i
    ELSE AllowedFrom(q, i + 1)

\* re.sub(r'^.*?(?=SELECT|...|PRAGMA)', '', q, re.I | re.S): the text before
\* the first allowed operation goes; when q starts with one, the empty match
\* at 0 is followed by a second match that runs up to the next one.
DropLeadingText(q) ==
    LET i == AllowedFrom(q, 2) IN IF i = 0 THEN q ELSE SubSeq(q, i, Len(q))

\* re.sub(r';.*$', ';', q, re.S)
CutAfterSemicolon(q) ==
    LET j == IndexOf(q, ";", 1) IN IF j = 0 THEN q ELSE SubSeq(q, 1, j)

\* The branch taken when the reply has no fence.
FallbackSql(reply) == Strip(CutAfterSemicolon(DropLeadingText(Strip(reply))))

\* The SQL that SQLGenerator.run extracts from the reply.
ExtractSQL(reply) == IF HasFence(reply) THEN FencedSql(reply) ELSE FallbackSql(reply)

GeneratedSql(query) ==
    [status |-> "sql", message |-> "", reason |-> "", query |-> query, documents |-> 0]

GenerationFailed ==
    [status |-> "Exception", message |-> "", reason |-> "", query |-> <<>>, documents |-> 0]

\* A variant of run that returns the extracted SQL whatever the verdict.
SQLGeneratorRunIgnoringVerdict(reply, use_llm, vreply) ==
    IF reply.raises
    THEN [sql |-> <<>>, validated |-> FALSE, verdict |-> NoVerdict,
          result |-> GenerationFailed]
    ELSE LET q == ExtractSQL(reply.text) IN
         [sql |-> q, validated |-> TRUE, verdict |-> IsSafeQuery(q, use_llm, vreply),
          result |-> GeneratedSql(q)]

\* SQLGenerator.run: the extracted SQL, the verdict of its validator and what
\* the call returns or raises.  vreply is what the validator's llm did.
SQLGeneratorRun(reply, use_llm, vreply) ==
    IF reply.raises
    THEN [sql |-> <<>>, validated |-> FALSE, verdict |-> NoVerdict,
          result |-> GenerationFailed]
    ELSE LET q == ExtractSQL(reply.text)
             v == IsSafeQuery(q, use_llm, vreply)
         IN  [sql |-> q, validated |-> TRUE, verdict |-> v,
              result |-> IF v.safe THEN GeneratedSql(q)
                         ELSE Raised("Generated SQL query failed safety validation",
                                     v.reason, q)]

\* One entry of the log of is_safe_query calls.
Gate(component, query, use_llm, v) ==
    [gate |-> component, query |-> query, use_llm |-> use_llm, verdict |-> v,
     rule |-> IF IsBlank(query) THEN NoVerdict ELSE RuleBasedSafetyCheck(query)]

-----------------------------------------------------------------------------
(* The per-organization registries, the Qdrant collections and the         *)
(* documents of an indexing run.                                           *)

Orgs == {"acme", "globex"}

Users == {"u1", "u2"}

\* The API process and the worker each run one call at a time; caller 2 is a
\* second thread of the same process.
Callers == {1, 2}

\* configuration["tenancy"]["organization_prefix"]
OrganizationPrefix == "org"

\* f"{tenancy_config['organization_prefix']}-{organization_id}"
CollectionName(organization_id) == <<OrganizationPrefix, "-", organization_id>>

AllCollections == {CollectionName(o) : o \in Orgs}

\* QdrantDocumentStore(url, index=collection_name, ...)
StoreObject(organization_id) ==
    [kind |-> "QdrantDocumentStore", index |-> CollectionName(organization_id),
     store |-> 0, organization_id |-> ""]

\* create_processing_pipeline(document_store): cleaner, splitter, embedder and
\* a DocumentWriter on document_store
PipelineObject(document_store) ==
    [kind |-> "Pipeline", index |-> <<>>, store |-> document_store, organization_id |-> ""]

\* QueryPipeline(..., organization_id): store is the document store of its
\* doc_retriever (0 when it has none), organization_id the value of its filter
QueryPipelineObject(organization_id, document_store) ==
    [kind |-> "QueryPipeline", index |-> <<>>, store |-> document_store,
     organization_id |-> organization_id]

\* QueryPipelinesFactory._shared_pipeline and QueryService.query_pipeline,
\* both built without an organization
InitialHeap == <<QueryPipelineObject("", 0), QueryPipelineObject("", 0)>>

\* The classes that keep one instance for the process.
Singletons == {"DocumentStoreManager", "IndexingPipelinesFactory", "QueryPipelinesFactory"}

NotConstructing == [pc |-> "idle", cls |-> "", self |-> 0]

\* The process after each class has been constructed once: the first object
\* of each class is object 1.
SingletonsBuilt ==
    /\ instance = [k \in Singletons |-> 1]
    /\ initialized = [k \in Singletons |-> TRUE]
    /\ construct = NotConstructing
    /\ made = <<>>

\* organization_id in self._document_stores
StoreNeverCached(organization_id) == FALSE

StoreCached(organization_id) == documentStores[organization_id] # 0

\* organization_id in self._processing_pipelines
PipelineCached(organization_id) == processingPipelines[organization_id] # 0

\* organization_id in self._query_pipelines
QueryPipelineCached(organization_id) == queryPipelines[organization_id] # 0

\* The check of _create_document_store when auto creation is off.
CollectionMissing(organization_id) ==
    ~autoCreate /\ CollectionName(organization_id) \notin collections

-----------------------------------------------------------------------------
(* Documents.  The content of a document is a sequence of words; "" is an  *)
(* empty line.                                                             *)

\* What download_file finds under an object path.
ObjectPaths == {"a.txt", "gone.txt", "scan.pdf", "in/bad.PDF"}

DownloadFails(object_path) == object_path = "gone.txt"

\* The contents the object may have when it is downloaded: a.txt is uploaded
\* again with other words between two runs.
FileVersions(object_path) ==
    IF object_path = "a.txt" THEN {<<"p", "", "q">>, <<"r">>}
    ELSE IF object_path = "scan.pdf" THEN {<<"%PDF">>}
    ELSE IF object_path = "in/bad.PDF" THEN {<<"%PDF", "torn">>}
    ELSE {<<>>}

\* Path(object_path).suffix.lower()
Suffix(object_path) ==
    IF object_path \in {"a.txt", "gone.txt"} THEN ".txt"
    ELSE IF object_path \in {"scan.pdf", "in/bad.PDF"} THEN ".pdf"
    ELSE ""

\* object_path.split("/")[-1]
SourceFile(object_path) == IF object_path = "in/bad.PDF" THEN "bad.PDF" ELSE object_path

\* The suffix of the temporary file: the suffix of the object, or ".txt"
TempSuffix(object_path) == IF Suffix(object_path) = "" THEN ".txt" ELSE Suffix(object_path)

\* self.file_type_map
FileTypeMap(ext) == IF ext = ".pdf" THEN "pdf" ELSE IF ext = ".txt" THEN "txt" ELSE ""

\* A variant of detect_file_type that looks at the object path first.
DetectObjectPathFirst(file_ext, object_ext) ==
    IF FileTypeMap(object_ext) # "" THEN FileTypeMap(object_ext)
    ELSE IF FileTypeMap(file_ext) # "" THEN FileTypeMap(file_ext)
    ELSE "txt"

\* The body of detect_file_type on the two lower-cased suffixes: the type of
\* the file's suffix if the map has it, else the type of the object path's
\* suffix if the map has it, else DocumentType.TXT.
DetectByExt(file_ext, object_ext) ==
    IF FileTypeMap(file_ext) # "" THEN FileTypeMap(file_ext)
    ELSE IF FileTypeMap(object_ext) # "" THEN FileTypeMap(object_ext)
    ELSE "txt"

\* detect_file_type(file_path, object_path)
DetectFileType(file_ext, object_path) == DetectByExt(file_ext, Suffix(object_path))

\* Paths as text.  A path is a sequence of atoms: a name of one character,
\* the dot, the slash and two extensions of three characters, one of them
\* in upper case.
PathAtoms == {"a", ".", "/", "txt", "PDF"}

NoDetection == [pc |-> "idle", file_path |-> <<>>, object_path |-> <<>>, type |-> ""]

\* The index of the last slash of the first n atoms of path, or 0.
RECURSIVE LastSlash(_, _)
LastSlash(path, n) ==
    IF n = 0 THEN 0 ELSE IF path[n] = "/" THEN n ELSE LastSlash(path, n - 1)

\* The parts of a path: str.split("/") without the empty components and
\* without the components ".", which pathlib drops when it parses a path.
RECURSIVE PathParts(_)
PathParts(path) ==
    IF path = <<>> THEN <<>>
    ELSE LET cut == LastSlash(path, Len(path))
             last == SubSeq(path, cut + 1, Len(path))
             before == IF cut = 0 THEN <<>> ELSE PathParts(SubSeq(path, 1, cut - 1))
         IN IF last \in {<<>>, <<".">>} THEN before ELSE Append(before, last)

\* Path(path).name: the last part, or the empty string
PathName(path) ==
    IF PathParts(path) = <<>> THEN <<>> ELSE PathParts(path)[Len(PathParts(path))]

\* name.rfind("."), as the index of an atom, or 0 when there is no dot
RECURSIVE RFindDot(_, _)
RFindDot(name, n) ==
    IF n = 0 THEN 0 ELSE IF name[n] = "." THEN n ELSE RFindDot(name, n - 1)

\* Path(path).suffix: the name from its last dot on, if that dot is neither
\* the first nor the last character of the name
PathSuffix(path) ==
    LET name == PathName(path)
        i == RFindDot(name, Len(name))
    IN IF 1 < i /\ i < Len(name) THEN SubSeq(name, i, Len(name)) ELSE <<>>

\* str.lower()
Lower(text) == [k \in 1..Len(text) |-> IF text[k] = "PDF" THEN "pdf" ELSE text[k]]

\* The lower-cased suffix as the key looked up in self.file_type_map
ExtKey(ext) ==
    IF ext = <<".", "pdf">> THEN ".pdf"
    ELSE IF ext = <<".", "txt">> THEN ".txt"
    ELSE IF ext = <<>> THEN ""
    ELSE "other"

\* Path(path).suffix.lower()
SuffixLower(path) == ExtKey(Lower(PathSuffix(path)))

\* detect_file_type(file_path, object_path) on two paths
DetectFileTypeOf(file_path, object_path) ==
    DetectByExt(SuffixLower(file_path), SuffixLower(object_path))

\* os.path.getsize(file_path), in words
FileSize(file_words) == Len(file_words)

\* What the converter of the detected type does with the file: it raises on
\* in/bad.PDF, finds no document in scan.pdf and returns one document otherwise.
ConverterRaises(object_path) == object_path = "in/bad.PDF"

ConverterError == "EOF marker not found"

\* Document(content=..., meta=...).  embedding is "none" until the embedder
\* sets it; stages lists what has handled the document, in order.
Document(content, meta) ==
    [content |-> content, doc_id |-> meta.doc_id, object_path |-> meta.object_path,
     doc_type |-> meta.doc_type, source_file |-> meta.source_file,
     file_size |-> meta.file_size,
     user_id |-> meta.user_id, organization_id |-> meta.organization_id,
     split_id |-> meta.split_id, embedding |-> "none", stages |-> <<"convert">>]

BaseMeta(doc_id, object_path, file_words) ==
    [doc_id |-> doc_id, object_path |-> object_path,
     doc_type |-> DetectFileType(TempSuffix(object_path), object_path),
     source_file |-> SourceFile(object_path),
     file_size |-> FileSize(file_words),
     user_id |-> "", organization_id |-> "", split_id |-> 0]

\* A variant of convert_document that returns no document when the converter
\* raises.
ConvertDocumentSkipping(doc_id, object_path, file_words) ==
    IF ConverterRaises(object_path) \/ object_path = "scan.pdf" THEN <<>>
    ELSE <<Document(file_words, BaseMeta(doc_id, object_path, file_words))>>

\* convert_document: the documents of the converter with base_meta, one
\* placeholder document when the converter raises
ConvertDocument(doc_id, object_path, file_words) ==
    LET base_meta == BaseMeta(doc_id, object_path, file_words) IN
    IF ConverterRaises(object_path)
    THEN <<Document(<<"Error processing", base_meta.doc_type, "file:", ConverterError>>,
                    base_meta)>>
    ELSE IF object_path = "scan.pdf" THEN <<>>
    ELSE <<Document(file_words, base_meta)>>

\* A variant that leaves the metadata as the converter made it.
StampNothing(doc, user_id, organization_id) == doc

\* doc.meta.update({"user_id": user_id, "organization_id": organization_id})
StampTenant(doc, user_id, organization_id) ==
    [doc EXCEPT !.user_id = user_id, !.organization_id = organization_id,
                !.stages = Append(@, "stamp")]

StampAll(documents, user_id, organization_id) ==
    [i \in 1..Len(documents) |-> StampTenant(documents[i], user_id, organization_id)]

IsWord(w) == w # ""

\* A cleaner that hands its documents on as they are.
CleanNothing(doc) == doc

\* DocumentCleaner: empty lines go
Clean(doc) ==
    [doc EXCEPT !.content = SelectSeq(doc.content, IsWord), !.stages = Append(@, "clean")]

\* haystack_config["splitter"]["split_length"], in words
SplitLength == 1

\* DocumentSplitter: consecutive pieces of SplitLength words, each with the
\* metadata of its document and its own split_id
Split(doc) ==
    LET n == Len(doc.content)
        pieces == (n + SplitLength - 1) \div SplitLength
    IN  [k \in 1..pieces |->
            [doc EXCEPT
                !.content = SubSeq(doc.content, (k - 1) * SplitLength + 1,
                                   IF k * SplitLength < n THEN k * SplitLength ELSE n),
                !.split_id = k - 1,
                !.stages = Append(@, "split")]]

\* cleaner -> splitter on every document
RECURSIVE SplitAll(_)
SplitAll(documents) ==
    IF documents = <<>> THEN <<>>
    ELSE Split(Clean(Head(documents))) \o SplitAll(Tail(documents))

\* SentenceTransformersDocumentEmbedder: every chunk gets its embedding
Embed(chunk) == [chunk EXCEPT !.embedding = "vector", !.stages = Append(@, "embed")]

\* pipeline.run({"cleaner": {"documents": documents}}) up to the writer:
\* cleaner -> splitter -> embedder
ProcessDocuments(documents) ==
    LET pieces == SplitAll(documents) IN [i \in 1..Len(pieces) |-> Embed(pieces[i])]

\* Document.id: a hash of the content and the metadata
DocumentId(chunk) ==
    <<chunk.content, chunk.doc_id, chunk.object_path, chunk.doc_type, chunk.source_file,
      chunk.file_size, chunk.user_id, chunk.organization_id, chunk.split_id>>

Range(f) == {f[i] : i \in DOMAIN f}

\* DocumentWriter(policy=DuplicatePolicy.OVERWRITE): a stored chunk with the id
\* of a written one is replaced, every other stored chunk stays
WriteOverwrite(stored, chunks) ==
    {old \in stored : \A new \in Range(chunks) : DocumentId(new) # DocumentId(old)}
        \cup Range(chunks)

\* query_config["retriever"]["top_k"]
TopK == 10

\* QdrantEmbeddingRetriever(document_store, top_k, filters): at most top_k of
\* the chunks in the store's collection whose meta.organization_id has the
\* value of the filter
Retrievable(pipeline) ==
    IF heap[pipeline].store = 0 THEN {}
    ELSE {chunk \in points[heap[heap[pipeline].store].index] :
             chunk.organization_id = heap[pipeline].organization_id}

Retrievals(pipeline) ==
    {S \in SUBSET Retrievable(pipeline) :
        Cardinality(S) = IF Cardinality(Retrievable(pipeline)) < TopK
                         THEN Cardinality(Retrievable(pipeline)) ELSE TopK}

-----------------------------------------------------------------------------
(* Calls, frames and the log.                                              *)

NoRequest == [doc_id |-> "", object_path |-> "", user_id |-> "", organization_id |-> ""]

IndexRequest(doc_id, object_path, user_id, organization_id) ==
    [doc_id |-> doc_id, object_path |-> object_path, user_id |-> user_id,
     organization_id |-> organization_id]

Frame(fn, pc, organization_id, request) ==
    [fn |-> fn, pc |-> pc, organization_id |-> organization_id, request |-> request,
     ret |-> 0, file |-> <<>>, documents |-> <<>>]

\* What a finished call returned (status "ok", "success", "error") or raised.
Finished(c, fn, organization_id, status, object) ==
    [caller |-> c, fn |-> fn, organization_id |-> organization_id, status |-> status,
     object |-> object, request |-> NoRequest, chunks |-> <<>>, collection |-> <<>>,
     written_to |-> <<>>, message |-> "", text |-> <<>>, points_count |-> 0]

NoEvidence ==
    [pipeline |-> 0, organization_id |-> "", targets |-> <<>>, retrieval |-> FALSE,
     chunks |-> {}]

\* What a run of the query pipeline raised, and the run before it starts.
NoError == [type |-> "", message |-> "", reason |-> ""]

Error(type, message, reason) == [type |-> type, message |-> message, reason |-> reason]

NoQueryRun ==
    [pc |-> "idle", pipeline |-> 0, targets |-> <<>>, organization_id |-> "",
     ran |-> <<>>, calls |-> <<>>, retrieved |-> <<>>, sql_documents |-> <<>>,
     joined |-> <<>>, prompt |-> <<>>, status |-> "", error |-> NoError,
     query |-> "", replies |-> <<>>, answer |-> "",
     response |-> [kind |-> "", answer |-> <<>>, sources |-> ""]]

\* The jobs of the queue and a queue on which nothing was dispatched.
Jobs == 1..MaxJobs

NoResult == [kind |-> "", message |-> "", text |-> <<>>]

NoTask ==
    [payload |-> NoRequest, state |-> "none", retries |-> 0, attempts |-> 0,
     result |-> NoResult]

NoTasks == [j \in Jobs |-> NoTask]

Top(c) == stack[c][Len(stack[c])]

Running(c, fn, pc) == stack[c] # <<>> /\ Top(c).fn = fn /\ Top(c).pc = pc

\* The indexing runs that have ended, and those that ended with a status.
IndexRuns == {i \in DOMAIN log : log[i].fn = "run_indexing_pipeline"}

IndexRunsEnded(status) == {i \in IndexRuns : log[i].status = status}

CallsStarted == Len(log) + Cardinality({c \in Callers : stack[c] # <<>>})

\* The registries before the first call.
RegistryInit ==
    /\ points = [n \in AllCollections |-> {}]
    /\ heap = InitialHeap
    /\ documentStores = [o \in Orgs |-> 0]
    /\ processingPipelines = [o \in Orgs |-> 0]
    /\ queryPipelines = [o \in Orgs |-> 0]
    /\ stack = [c \in Callers |-> <<>>]
    /\ log = <<>>
    /\ tempFiles = {}
    /\ evidence = NoEvidence
    /\ qrun = NoQueryRun
    /\ tasks = NoTasks

RegistryIdle == autoCreate = TRUE /\ collections = {} /\ RegistryInit

-----------------------------------------------------------------------------
(* The inputs of the validator specification.                              *)

SeqsUpTo(S, n) == UNION {[1..k -> S] : k \in 0..n}

InputAtoms == {"SELECT", "select", "DROP", "x", " ", "\n", ";", "'"}

TailAtoms == {";", " ", "DROP", "x", "MERGE", "'"}

RunAtoms == {"SELECT", " ", "x", "DROP", ";"}

\* Well-formed pieces of SQL text: quoted literals (one of them holding the
\* other kind of quote, one holding a keyword) and single tokens.
Segments ==
    {<<"'", "x", "'">>, <<"\"", "'", "\"">>, <<"'", "\"", "'">>, <<"'", "DROP", "'">>,
     <<"DROP">>, <<"MERGE">>, <<";">>, <<"x">>, <<" ">>}

RECURSIVE Flatten(_)
Flatten(ss) == IF ss = <<>> THEN <<>> ELSE Head(ss) \o Flatten(Tail(ss))

SelectThen(body) == <<"SELECT", " ">> \o body

\* SELECT x FROM t; DROP TABLE t;   (identifiers written x)
ExampleSeparator ==
    <<"SELECT", " ", "x", " ", "x", " ", "x", ";", " ", "DROP", " ", "x", " ", "x", ";">>

\* SELECT name FROM users WHERE note = 'please DROP TABLE later'
ExampleLiteral ==
    <<"SELECT", " ", "x", " ", "x", " ", "x", " ", "x", " ", "x", " ", "=", " ",
      "'", "x", " ", "DROP", " ", "x", " ", "x", "'">>

\* One string for each rule of the rule-based layer that the families above
\* do not reach.
RuleExamples ==
    {ExampleSeparator, ExampleLiteral,
     SelectThen(<<"1", " ", "--", " ", "x", "DROP">>),
     SelectThen(<<"1", " ", "/*", "x", "DROP", "*/">>),
     SelectThen(<<"*/", "*/", "x", "DROP", "/*", "/*">>),
     SelectThen(<<"EXEC", " ", "(", "x">>),
     SelectThen(<<"x", "EXECUTE", "(">>),
     SelectThen(<<"xp_", "x">>),
     SelectThen(<<"x", "sp_">>),
     SelectThen(<<"'", "x", "'", " ", "OR", " ", "'", "x", "'">>),
     SelectThen(<<"'", "x", "'", "AND", "'", "x", "'">>),
     SelectThen(<<"'", "x", "'", " ", ";">>),
     SelectThen(<<"'", "x", "'", " ", "OR", " ", "1", "=", "1">>),
     SelectThen(<<"'", "x", "'", " ", "OR", " ", "TRUE">>),
     SelectThen(<<"'", " ", "OR", " ", "'", "x", "=", "'", "x">>),
     SelectThen(<<"x", " ", "0", " ", "=", " ", "0">>),
     SelectThen(<<"NULL", " ", "IS", " ", "NULL">>),
     SelectThen(<<"1", ";", " ", "UNION", " ", "SELECT", " ", "1">>),
     SelectThen(<<"'", "x", "'", " ", "UNION", " ", "ALL", " ", "SELECT", " ", "1">>),
     <<"WITH", " ", "x", " ", "x">>,
     <<"\n", "select", " ", "1", "\n">>}

SqlInputs ==
    SeqsUpTo(InputAtoms, MaxLen)
    \cup {SelectThen(b) : b \in SeqsUpTo(TailAtoms, MaxTail)}
    \cup RuleExamples

\* SELECT followed by up to MaxSegments literals and tokens.
QuotedInputs == {SelectThen(Flatten(ss)) : ss \in SeqsUpTo(Segments, MaxSegments)}

RunInputs == SeqsUpTo(RunAtoms, MaxRunLen) \cup RuleExamples

\* Replies of the generation backend to the generation prompt: a candidate
\* statement inside a fence, bare, or between prose.
Fenced(c) == <<Fence, "sql", "\n">> \o c \o <<"\n", Fence>>

InProse(c) == <<"x", ":", " ">> \o c \o <<" ", "x">>

GenTexts ==
    {Fenced(c) : c \in SeqsUpTo(RunAtoms, MaxRunLen)}
    \cup {InProse(c) : c \in SeqsUpTo(RunAtoms, MaxRunLen)}
    \cup SeqsUpTo(RunAtoms, MaxRunLen)
    \cup {<<Fence, "SQL", " ", "select", " ", "1", Fence, "x">>,
          <<Fence, "sql", "SELECT", " ", "1", Fence>>,
          <<Fence, "sql", "\n", "SELECT", " ", "1">>,
          <<"SELECT", " ", "x", " ", "(", "SELECT", " ", "1", ")">>}

\* Replies of the generation backend to the classification prompt.
LLMReplies ==
    {LLMSays(<<"SAFE:", " ", "read-only">>),
     LLMSays(<<"\n", "SAFE:", "ok">>),
     LLMSays(<<"UNSAFE:", " ", "modifies data">>),
     LLMSays(<<"safe:", " ", "ok">>),
     LLMSays(<<"The", " ", "query", " ", "is", " ", "SAFE:">>),
     LLMSays(<<"SAFE", " ", "ok">>),
     LLMSays(<<>>),
     LLMRaises}

GenReplies == {LLMSays(t) : t \in GenTexts} \cup {LLMRaises}

-----------------------------------------------------------------------------
(* The validator specifications: one call on one input.                    *)

LLMConfigured == [model |-> "llama3.2", base_url |-> "http://ollama:11434"]

NoBaseUrl == [model |-> "llama3.2", base_url |-> ""]

NoLLM == [model |-> "", base_url |-> ""]

LLMConfigs == {LLMConfigured, NoBaseUrl, NoLLM}

\* The components built from llm_config, before any call.
ComponentsBuilt(configs) ==
    /\ llmConfig \in configs
    /\ genUseLLM = BuildQueryPipeline(llmConfig).sql_generator
    /\ useLLM = BuildQueryPipeline(llmConfig).sql_exec
    /\ vpc = "idle"
    /\ ruleVerdict = NoVerdict
    /\ verdict = NoVerdict
    /\ llmReply = NoReply
    /\ llmConsulted = FALSE
    /\ executed = <<>>
    /\ runResult = NotRun
    /\ gates = <<>>
    /\ genReply = NoReply
    /\ genResult = NotRun

InitOn(inputs) ==
    /\ sql \in inputs
    /\ ComponentsBuilt({LLMConfigured, NoLLM})
    /\ detected = NoDetection
    /\ SingletonsBuilt
    /\ RegistryIdle

\* validator._rule_based_safety_check(sql)
RuleBasedSafetyCheckCall ==
    /\ vpc = "idle"
    /\ vpc' = "_rule_based_safety_check"
    /\ ruleVerdict' = RuleBasedSafetyCheck(sql)
    /\ UNCHANGED <<sql, useLLM, verdict, llmReply, llmConsulted, executed, runResult, gates>>
    /\ UNCHANGED <<genVars, regVars, queryVars, taskVars, detectVars, singletonVars>>

\* validator.is_safe_query(sql)
IsSafeQueryCall ==
    /\ vpc = "idle"
    /\ vpc' = "is_safe_query"
    /\ llmConsulted' = ConsultsLLM(sql, useLLM)
    /\ \E reply \in IF llmConsulted' THEN LLMReplies ELSE {NoReply} :
          /\ llmReply' = reply
          /\ verdict' = IsSafeQuery(sql, useLLM, reply)
    /\ ruleVerdict' = IF IsBlank(sql) THEN NoVerdict ELSE RuleBasedSafetyCheck(sql)
    /\ UNCHANGED <<sql, useLLM, executed, runResult, gates>>
    /\ UNCHANGED <<genVars, regVars, queryVars, taskVars, detectVars, singletonVars>>

\* SQLQuery(conn_str, llm_model, llm_base_url).run(sql), called when the
\* position is before
SQLQueryRunOn(before) ==
    /\ vpc = before
    /\ vpc' = "SQLQuery.run"
    /\ llmConsulted' = ConsultsLLM(sql, useLLM)
    /\ \E reply \in IF llmConsulted' THEN LLMReplies ELSE {NoReply}, db \in DbOutcomes,
          fetched \in RowCounts :
          LET r == SQLQueryRun(sql, useLLM, reply, db) IN
          /\ llmReply' = reply
          /\ verdict' = r.verdict
          /\ executed' = executed \o r.executed
          /\ runResult' = WithRows(r.result, fetched)
          /\ gates' = Append(gates, Gate("SQLQuery", sql, useLLM, r.verdict))
    /\ ruleVerdict' = IF IsBlank(sql) THEN NoVerdict ELSE RuleBasedSafetyCheck(sql)
    /\ UNCHANGED <<sql, useLLM>>
    /\ UNCHANGED <<genVars, regVars, taskVars, detectVars, singletonVars>>

\* the same call outside a run of the query pipeline
SQLQueryRunStep(before) == SQLQueryRunOn(before) /\ UNCHANGED queryVars

SQLQueryRunCall == SQLQueryRunStep("idle")

vars == <<valVars, genVars, regVars, queryVars, taskVars, detectVars, singletonVars>>

InitValidator == InitOn(SqlInputs)

\* The paths handed to detect_file_type.
Paths == SeqsUpTo(PathAtoms, MaxPathLen)

\* self.detect_file_type(file_path, object_path)
DetectFileTypeCall ==
    /\ detected.pc = "idle"
    /\ detected' = [detected EXCEPT
                       !.pc = "detect_file_type",
                       !.type = DetectFileTypeOf(detected.file_path, detected.object_path)]
    /\ UNCHANGED <<valVars, genVars, regVars, queryVars, taskVars, singletonVars>>

InitDetect ==
    /\ sql = <<>>
    /\ ComponentsBuilt({LLMConfigured})
    /\ RegistryIdle
    /\ detected \in [pc : {"idle"}, file_path : Paths, object_path : Paths, type : {""}]
    /\ SingletonsBuilt

NextDetect == DetectFileTypeCall

SpecDetect == InitDetect /\ [][NextDetect]_vars

NextValidator == RuleBasedSafetyCheckCall \/ IsSafeQueryCall

\* The validator on short strings over InputAtoms and TailAtoms.
SpecValidator == InitValidator /\ [][NextValidator]_vars

InitQuoting == InitOn(QuotedInputs)

\* The validator on well-formed text with quoted literals.
SpecQuoting == InitQuoting /\ [][NextValidator]_vars

InitSQLQuery == InitOn(RunInputs)

NextSQLQuery == SQLQueryRunCall

\* SQLQuery.run called as a component on any query string.
SpecSQLQuery == InitSQLQuery /\ [][NextSQLQuery]_vars

-----------------------------------------------------------------------------
(* The SQL branch of the query pipeline: sql_generator, then sql_exec on   *)
(* the string sql_generator returned.                                      *)

\* sql_generator.run(question): the reply of its llm, the extraction and the
\* first validation
SQLGeneratorRunOn(replies) ==
    /\ vpc = "idle"
    /\ vpc' = "SQLGenerator.run"
    /\ \E reply \in replies :
          \E vreply \in IF ~reply.raises /\ ConsultsLLM(ExtractSQL(reply.text), genUseLLM)
                        THEN LLMReplies ELSE {NoReply} :
             LET r == SQLGeneratorRun(reply, genUseLLM, vreply) IN
             /\ genReply' = reply
             /\ genResult' = r.result
             /\ sql' = r.sql
             /\ gates' = IF r.validated
                         THEN Append(gates, Gate("SQLGenerator", r.sql, genUseLLM, r.verdict))
                         ELSE gates
    /\ UNCHANGED <<useLLM, ruleVerdict, verdict, llmReply, llmConsulted, executed, runResult>>
    /\ UNCHANGED <<llmConfig, genUseLLM, regVars, taskVars, detectVars, singletonVars>>

\* the same call outside a run of the query pipeline, on any reply
SQLGeneratorRunCall == SQLGeneratorRunOn(GenReplies) /\ UNCHANGED queryVars

\* pipe.connect("sql_generator.sql", "sql_exec.query"): sql_exec runs on the
\* output of sql_generator, when there is one
SqlExecRun == genResult.status = "sql" /\ SQLQueryRunStep("SQLGenerator.run")

InitSqlBranch ==
    /\ sql = <<>>
    /\ ComponentsBuilt(LLMConfigs)
    /\ detected = NoDetection
    /\ SingletonsBuilt
    /\ RegistryIdle

NextSqlBranch == SQLGeneratorRunCall \/ SqlExecRun

SpecSqlBranch == InitSqlBranch /\ [][NextSqlBranch]_vars

-----------------------------------------------------------------------------
(* Calls on the registries.  A call is a frame on the stack of its caller; *)
(* each action below is one step of the frame on top.                      *)

SetTop(c, frame) == [stack EXCEPT ![c] = [@ EXCEPT ![Len(@)] = frame]]

Goto(c, pc) == SetTop(c, [Top(c) EXCEPT !.pc = pc])

\* A call of c starts: fn(organization_id) or fn(request).
Call(c, fn, pc, organization_id, request) ==
    /\ stack[c] = <<>>
    /\ CallsStarted < MaxCalls
    /\ stack' = [stack EXCEPT ![c] = <<Frame(fn, pc, organization_id, request)>>]
    /\ UNCHANGED <<autoCreate, collections, points, heap, documentStores,
                   processingPipelines, queryPipelines, log, tempFiles, evidence>>
    /\ UNCHANGED <<valVars, genVars, queryVars, taskVars, detectVars, singletonVars>>

\* The frame on top returns value: to the frame below, or to the log.
Return(c, value) ==
    LET rest == SubSeq(stack[c], 1, Len(stack[c]) - 1) IN
    IF rest = <<>>
    THEN /\ stack' = [stack EXCEPT ![c] = <<>>]
         /\ log' = Append(log, Finished(c, Top(c).fn, Top(c).organization_id, "ok", value))
    ELSE /\ stack' = [stack EXCEPT ![c] = [rest EXCEPT ![Len(rest)].ret = value]]
         /\ UNCHANGED log

\* A finally clause that leaves the file where it is.
KeepTempFile(files, c) == files

\* finally: if os.path.exists(temp_file_path): os.unlink(temp_file_path)
RemoveTempFile(files, c) == files \ {c}

\* collection_name of create_collection
CreateCollectionName(organization_id) == <<OrganizationPrefix, "-", organization_id>>

\* f"Failed to create collection {collection_name}: {str(e)}"
FailedToCreate(organization_id, original) ==
    <<"Failed to create collection ", CreateCollectionName(organization_id), ": ", original>>

\* A message that names the document only.
FailedToIndexBare(doc_id, original) == <<"Failed to index document ", doc_id>>

\* f"Failed to index document {doc_id}: {str(e)}"
FailedToIndex(doc_id, original) == <<"Failed to index document ", doc_id, ": ", original>>

\* The frame on top raises.  No frame catches but run_indexing_pipeline,
\* whose finally removes the temporary file and whose except wraps the
\* exception, and create_collection, whose except returns a result with
\* success False.
Raise(c, status, message) ==
    LET bottom == stack[c][1] IN
    /\ stack' = [stack EXCEPT ![c] = <<>>]
    /\ IF bottom.fn = "create_collection"
       THEN /\ log' = Append(log,
                        [Finished(c, bottom.fn, bottom.organization_id, "failed", 0)
                            EXCEPT !.collection = CreateCollectionName(bottom.organization_id),
                                   !.message = "Failed to create collection",
                                   !.text = FailedToCreate(bottom.organization_id, message)])
            /\ UNCHANGED tempFiles
       ELSE IF bottom.fn = "run_indexing_pipeline"
       THEN /\ log' = Append(log,
                        [Finished(c, bottom.fn, bottom.organization_id, "Exception", 0)
                            EXCEPT !.request = bottom.request,
                                   !.message = "Failed to index document",
                                   !.text = FailedToIndex(bottom.request.doc_id, message)])
            /\ tempFiles' = IF c \in tempFiles THEN RemoveTempFile(tempFiles, c)
                            ELSE tempFiles
       ELSE /\ log' = Append(log,
                        [Finished(c, bottom.fn, bottom.organization_id, status, 0)
                            EXCEPT !.message = message])
            /\ UNCHANGED tempFiles

\* DocumentStoreManager().get_document_store(organization_id)
GetDocumentStoreCall(c) ==
    \E o \in Orgs : Call(c, "get_document_store", "check", o, NoRequest)

\* if organization_id not in self._document_stores
GdsCheck(c) ==
    /\ Running(c, "get_document_store", "check")
    /\ stack' = Goto(c, IF StoreCached(Top(c).organization_id) THEN "return" ELSE "create")
    /\ UNCHANGED <<autoCreate, collections, points, heap, documentStores,
                   processingPipelines, queryPipelines, log, tempFiles, evidence>>
    /\ UNCHANGED <<valVars, genVars, queryVars, taskVars, detectVars, singletonVars>>

\* A variant of get_document_store that leaves an entry for the tenant behind
\* when _create_document_store raises.
GdsCreateKeepingEntry(c) ==
    /\ Running(c, "get_document_store", "create")
    /\ heap' = Append(heap, StoreObject(Top(c).organization_id))
    /\ documentStores' = [documentStores EXCEPT ![Top(c).organization_id] = Len(heap) + 1]
    /\ IF CollectionMissing(Top(c).organization_id)
       THEN Raise(c, "ValueError", "Collection does not exist")
       ELSE stack' = Goto(c, "return") /\ UNCHANGED <<log, tempFiles>>
    /\ UNCHANGED <<autoCreate, collections, points, processingPipelines, queryPipelines,
                   evidence>>
    /\ UNCHANGED <<valVars, genVars, queryVars, taskVars, detectVars, singletonVars>>

\* self._document_stores[organization_id] = self._create_document_store(...)
GdsCreate(c) ==
    /\ Running(c, "get_document_store", "create")
    /\ IF CollectionMissing(Top(c).organization_id)
       THEN /\ Raise(c, "ValueError", "Collection does not exist")
            /\ UNCHANGED <<heap, documentStores>>
       ELSE /\ heap' = Append(heap, StoreObject(Top(c).organization_id))
            /\ documentStores' =
                  [documentStores EXCEPT ![Top(c).organization_id] = Len(heap) + 1]
            /\ stack' = Goto(c, "return")
            /\ UNCHANGED <<log, tempFiles>>
    /\ UNCHANGED <<autoCreate, collections, points, processingPipelines, queryPipelines,
                   evidence>>
    /\ UNCHANGED <<valVars, genVars, queryVars, taskVars, detectVars, singletonVars>>

\* return self._document_stores[organization_id]: a KeyError when the entry
\* is gone
GdsReturn(c) ==
    /\ Running(c, "get_document_store", "return")
    /\ IF documentStores[Top(c).organization_id] # 0
       THEN Return(c, documentStores[Top(c).organization_id]) /\ UNCHANGED tempFiles
       ELSE Raise(c, "KeyError", "")
    /\ UNCHANGED <<autoCreate, collections, points, heap, documentStores,
                   processingPipelines, queryPipelines, evidence>>
    /\ UNCHANGED <<valVars, genVars, queryVars, taskVars, detectVars, singletonVars>>

\* IndexingPipelinesFactory().get_processing_pipeline(organization_id)
GetProcessingPipelineCall(c) ==
    \E o \in Orgs : Call(c, "get_processing_pipeline", "check", o, NoRequest)

\* if organization_id not in self._processing_pipelines:
\*     document_store = self.get_document_store(organization_id)
GppCheck(c) ==
    /\ Running(c, "get_processing_pipeline", "check")
    /\ stack' =
          IF PipelineCached(Top(c).organization_id)
          THEN Goto(c, "return")
          ELSE [Goto(c, "create") EXCEPT
                   ![c] = Append(@, Frame("get_document_store", "check",
                                          Top(c).organization_id, NoRequest))]
    /\ UNCHANGED <<autoCreate, collections, points, heap, documentStores,
                   processingPipelines, queryPipelines, log, tempFiles, evidence>>
    /\ UNCHANGED <<valVars, genVars, queryVars, taskVars, detectVars, singletonVars>>

\* self._processing_pipelines[organization_id] =
\*     self.create_processing_pipeline(document_store)
GppCreate(c) ==
    /\ Running(c, "get_processing_pipeline", "create")
    /\ heap' = Append(heap, PipelineObject(Top(c).ret))
    /\ processingPipelines' =
          [processingPipelines EXCEPT ![Top(c).organization_id] = Len(heap) + 1]
    /\ stack' = Goto(c, "return")
    /\ UNCHANGED <<autoCreate, collections, points, documentStores, queryPipelines, log,
                   tempFiles, evidence>>
    /\ UNCHANGED <<valVars, genVars, queryVars, taskVars, detectVars, singletonVars>>

\* return self._processing_pipelines[organization_id]
GppReturn(c) ==
    /\ Running(c, "get_processing_pipeline", "return")
    /\ Return(c, processingPipelines[Top(c).organization_id])
    /\ UNCHANGED <<autoCreate, collections, points, heap, documentStores,
                   processingPipelines, queryPipelines, tempFiles, evidence>>
    /\ UNCHANGED <<valVars, genVars, queryVars, taskVars, detectVars, singletonVars>>

\* QueryPipelinesFactory().get_organization_pipeline(organization_id)
GetOrganizationPipelineCall(c) ==
    \E o \in Orgs : Call(c, "get_organization_pipeline", "check", o, NoRequest)

\* if organization_id not in self._query_pipelines: the QueryPipeline is
\* constructed, and its _setup_organization_retriever asks the
\* DocumentStoreManager for the store
GopCheck(c) ==
    /\ Running(c, "get_organization_pipeline", "check")
    /\ stack' =
          IF QueryPipelineCached(Top(c).organization_id)
          THEN Goto(c, "return")
          ELSE [Goto(c, "create") EXCEPT
                   ![c] = Append(@, Frame("get_document_store", "check",
                                          Top(c).organization_id, NoRequest))]
    /\ UNCHANGED <<autoCreate, collections, points, heap, documentStores,
                   processingPipelines, queryPipelines, log, tempFiles, evidence>>
    /\ UNCHANGED <<valVars, genVars, queryVars, taskVars, detectVars, singletonVars>>

\* The retriever is built on the store with the filter on
\* self.organization_id, and the pipeline goes into self._query_pipelines.
GopCreate(c) ==
    /\ Running(c, "get_organization_pipeline", "create")
    /\ heap' = Append(heap, QueryPipelineObject(Top(c).organization_id, Top(c).ret))
    /\ queryPipelines' = [queryPipelines EXCEPT ![Top(c).organization_id] = Len(heap) + 1]
    /\ stack' = Goto(c, "return")
    /\ UNCHANGED <<autoCreate, collections, points, documentStores, processingPipelines,
                   log, tempFiles, evidence>>
    /\ UNCHANGED <<valVars, genVars, queryVars, taskVars, detectVars, singletonVars>>

\* return self._query_pipelines[organization_id]
GopReturn(c) ==
    /\ Running(c, "get_organization_pipeline", "return")
    /\ Return(c, queryPipelines[Top(c).organization_id])
    /\ UNCHANGED <<autoCreate, collections, points, heap, documentStores,
                   processingPipelines, queryPipelines, tempFiles, evidence>>
    /\ UNCHANGED <<valVars, genVars, queryVars, taskVars, detectVars, singletonVars>>

\* A removal that empties the registry.
DelEveryEntry(stores, organization_id) == [o \in DOMAIN stores |-> 0]

\* del self._document_stores[organization_id]
DelEntry(stores, organization_id) == [stores EXCEPT ![organization_id] = 0]

\* DocumentStoreManager().remove_document_store(organization_id)
RemoveDocumentStore(c) ==
    /\ stack[c] = <<>>
    /\ CallsStarted < MaxCalls
    /\ \E o \in Orgs :
          /\ documentStores' = DelEntry(documentStores, o)
          /\ log' = Append(log, Finished(c, "remove_document_store", o,
                                         IF documentStores[o] # 0 THEN "True" ELSE "False",
                                         documentStores[o]))
    /\ UNCHANGED <<autoCreate, collections, points, heap, processingPipelines,
                   queryPipelines, stack, tempFiles, evidence>>
    /\ UNCHANGED <<valVars, genVars, queryVars, taskVars, detectVars, singletonVars>>

\* QueryPipelinesFactory().clear_organization_pipeline(organization_id)
ClearOrganizationPipeline(c) ==
    /\ stack[c] = <<>>
    /\ CallsStarted < MaxCalls
    /\ \E o \in Orgs :
          /\ queryPipelines' = [queryPipelines EXCEPT ![o] = 0]
          /\ log' = Append(log, Finished(c, "clear_organization_pipeline", o, "ok",
                                         queryPipelines[o]))
    /\ UNCHANGED <<autoCreate, collections, points, heap, documentStores,
                   processingPipelines, stack, tempFiles, evidence>>
    /\ UNCHANGED <<valVars, genVars, queryVars, taskVars, detectVars, singletonVars>>

-----------------------------------------------------------------------------
(* The indexing run and the retrieval branch of a query.                   *)

\* The requests of the indexing specification.
IndexRequests ==
    {IndexRequest("d1", "a.txt", "u1", "acme"),
     IndexRequest("d1", "a.txt", "u2", "globex"),
     IndexRequest("d2", "gone.txt", "u2", "acme")}

\* What the stages of the processing pipeline do in one run.
StageOutcomes == {"run", "embedder raises"}

QueryTargets == {<<"docstore">>, <<"sql">>}

\* IndexingPipelinesFactory().run_indexing_pipeline(doc_id, object_path,
\* user_id, organization_id) with one of requests
RunIndexingPipelineOn(c, requests) ==
    \E r \in requests :
        Call(c, "run_indexing_pipeline", "start", r.organization_id, r)

RunIndexingPipelineCall(c) == RunIndexingPipelineOn(c, IndexRequests)

\* From the check of organization_id to the temporary file: download, then
\* the file is created and written.
IdxStart(c) ==
    /\ Running(c, "run_indexing_pipeline", "start")
    /\ \E file_bytes \in FileVersions(Top(c).request.object_path) :
       LET r == Top(c).request IN
           IF r.organization_id = ""
           THEN /\ stack' = [stack EXCEPT ![c] = <<>>]
                /\ log' = Append(log,
                       [Finished(c, "run_indexing_pipeline", "", "ValueError", 0)
                           EXCEPT !.request = r,
                                  !.message = "organization_id is required for multi-tenant indexing"])
                /\ UNCHANGED tempFiles
           ELSE IF DownloadFails(r.object_path)
           THEN Raise(c, "Exception", "download failed")
           ELSE /\ stack' = SetTop(c, [Top(c) EXCEPT !.pc = "convert", !.file = file_bytes])
                /\ tempFiles' = tempFiles \cup {c}
                /\ UNCHANGED log
    /\ UNCHANGED <<autoCreate, collections, points, heap, documentStores,
                   processingPipelines, queryPipelines, evidence>>
    /\ UNCHANGED <<valVars, genVars, queryVars, taskVars, detectVars, singletonVars>>

\* A test that takes every list of documents as non-empty.
NeverEmpty(documents) == FALSE

\* if documents: ... else: the list is empty
NoDocuments(documents) == documents = <<>>

\* Inside the inner try: conversion, then either the error result or the
\* stamping and the call of get_processing_pipeline.
IdxConvert(c) ==
    /\ Running(c, "run_indexing_pipeline", "convert")
    /\ LET r == Top(c).request
           documents == ConvertDocument(r.doc_id, r.object_path, Top(c).file)
       IN  IF NoDocuments(documents)
           THEN /\ stack' = [stack EXCEPT ![c] = <<>>]
                /\ log' = Append(log,
                       [Finished(c, "run_indexing_pipeline", r.organization_id, "error", 0)
                           EXCEPT !.request = r,
                                  !.message = "No documents were extracted"])
                /\ tempFiles' = RemoveTempFile(tempFiles, c)
           ELSE /\ stack' =
                      [stack EXCEPT ![c] =
                         <<[Top(c) EXCEPT
                               !.pc = "run",
                               !.documents = StampAll(documents, r.user_id,
                                                      r.organization_id)],
                           Frame("get_processing_pipeline", "check", r.organization_id,
                                 NoRequest)>>]
                /\ UNCHANGED <<log, tempFiles>>
    /\ UNCHANGED <<autoCreate, collections, points, heap, documentStores,
                   processingPipelines, queryPipelines, evidence>>
    /\ UNCHANGED <<valVars, genVars, queryVars, taskVars, detectVars, singletonVars>>

\* A name made of the tenant alone.
ReportedWithoutPrefix(organization_id) == <<organization_id>>

\* collection_name of the result: f"{tenancy_config['organization_prefix']}-{organization_id}"
ReportedCollectionName(organization_id) == <<OrganizationPrefix, "-", organization_id>>

\* pipeline.run({"cleaner": {"documents": documents}}), the result and the
\* finally clause
IdxRun(c) ==
    /\ Running(c, "run_indexing_pipeline", "run")
    /\ \E outcome \in StageOutcomes :
          LET r == Top(c).request
              pipeline == Top(c).ret
              chunks == ProcessDocuments(Top(c).documents)
              target == heap[heap[pipeline].store].index
          IN  IF outcome # "run"
              THEN Raise(c, "Exception", outcome) /\ UNCHANGED <<collections, points>>
              ELSE /\ points' = [points EXCEPT ![target] = WriteOverwrite(@, chunks)]
                   /\ collections' = collections \cup {target}
                   /\ stack' = [stack EXCEPT ![c] = <<>>]
                   /\ tempFiles' = RemoveTempFile(tempFiles, c)
                   /\ log' = Append(log,
                          [Finished(c, "run_indexing_pipeline", r.organization_id,
                                    "success", pipeline)
                              EXCEPT !.request = r,
                                     !.chunks = chunks,
                                     !.collection = ReportedCollectionName(r.organization_id),
                                     !.written_to = target])
    /\ UNCHANGED <<autoCreate, heap, documentStores, processingPipelines, queryPipelines,
                   evidence>>
    /\ UNCHANGED <<valVars, genVars, queryVars, taskVars, detectVars, singletonVars>>

QueryPipelineObjects == {p \in 1..Len(heap) : heap[p].kind = "QueryPipeline"}

\* A run_query that sets the filter of the retriever to the organization of
\* the call.
RetrieverSetOnRun(pipeline, organization_id) ==
    [pipeline EXCEPT !.organization_id = organization_id]

\* The pipeline object after run_query: self.pipeline.run(...) is all it does
\* with it; no component is added and nothing is connected
PipelineAfterRunQuery(pipeline, organization_id) == pipeline

\* pipeline.run_query(query, targets, organization_id, user_id) on any of the
\* query pipelines: what the doc_retriever hands to the joiner.  The
\* arguments organization_id and user_id are not used.
RunQuery(c) ==
    /\ \A d \in Callers : stack[d] = <<>>
    /\ \E p \in QueryPipelineObjects, o \in Orgs, targets \in QueryTargets :
          /\ \E chunks \in IF "docstore" \in Range(targets) THEN Retrievals(p) ELSE {{}} :
                evidence' =
                   [pipeline |-> p, organization_id |-> o, targets |-> targets,
                    retrieval |-> "docstore" \in Range(targets), chunks |-> chunks]
          /\ heap' = [heap EXCEPT ![p] = PipelineAfterRunQuery(@, o)]
    /\ UNCHANGED <<autoCreate, collections, points, documentStores,
                   processingPipelines, queryPipelines, stack, log, tempFiles>>
    /\ UNCHANGED <<valVars, genVars, queryVars, taskVars, detectVars, singletonVars>>

-----------------------------------------------------------------------------
(* The specifications of the registries.                                   *)

\* The process runs one call at a time.
Worker == 1

InitRegistry ==
    /\ sql = <<>>
    /\ ComponentsBuilt({LLMConfigured})
    /\ detected = NoDetection
    /\ SingletonsBuilt
    /\ autoCreate \in BOOLEAN
    /\ collections = IF autoCreate THEN {} ELSE {CollectionName("acme")}
    /\ RegistryInit

GetDocumentStoreSteps(c) == GdsCheck(c) \/ GdsCreate(c) \/ GdsReturn(c)

GetProcessingPipelineSteps(c) == GppCheck(c) \/ GppCreate(c) \/ GppReturn(c)

GetOrganizationPipelineSteps(c) == GopCheck(c) \/ GopCreate(c) \/ GopReturn(c)

Next ==
    \/ GetDocumentStoreCall(Worker) \/ GetDocumentStoreSteps(Worker)
    \/ GetProcessingPipelineCall(Worker) \/ GetProcessingPipelineSteps(Worker)
    \/ GetOrganizationPipelineCall(Worker) \/ GetOrganizationPipelineSteps(Worker)
    \/ RemoveDocumentStore(Worker)
    \/ ClearOrganizationPipeline(Worker)

\* Get-or-create and removal, one call after the other.
Spec == InitRegistry /\ [][Next]_vars

-----------------------------------------------------------------------------
(* The constructors of the singleton classes.                              *)

\* A variant of __init__ without the guard on _initialized.
InitializesEveryTime(k) == TRUE

\* if not self._initialized
ShouldInitialize(k) == ~initialized[k]

\* __new__: cls._instance, set to a new object when it is None
NewOrExisting(k) == IF instance[k] = 0 THEN Len(made) + 2 ELSE instance[k]

\* cls(): __new__ hands on cls._instance
ConstructNew ==
    /\ stack[Worker] = <<>>
    /\ construct.pc = "idle"
    /\ Len(made) < MaxConstructions
    /\ \E k \in Singletons :
          /\ instance' = [instance EXCEPT ![k] = NewOrExisting(k)]
          /\ construct' = [pc |-> "__init__", cls |-> k, self |-> NewOrExisting(k)]
    /\ UNCHANGED <<initialized, made>>
    /\ UNCHANGED <<valVars, genVars, regVars, queryVars, taskVars, detectVars>>

\* __init__(self): the body runs only while _initialized is False; it binds
\* empty dictionaries (and, in QueryPipelinesFactory, builds the shared
\* pipeline) and sets _initialized
ConstructInit ==
    /\ construct.pc = "__init__"
    /\ LET k == construct.cls IN
       IF ShouldInitialize(k)
       THEN /\ initialized' = [initialized EXCEPT ![k] = TRUE]
            /\ documentStores' =
                  IF k = "DocumentStoreManager" THEN [o \in Orgs |-> 0] ELSE documentStores
            /\ processingPipelines' =
                  IF k = "IndexingPipelinesFactory" THEN [o \in Orgs |-> 0]
                  ELSE processingPipelines
            /\ queryPipelines' =
                  IF k = "QueryPipelinesFactory" THEN [o \in Orgs |-> 0] ELSE queryPipelines
            /\ heap' = IF k = "QueryPipelinesFactory"
                       THEN Append(heap, QueryPipelineObject("", 0)) ELSE heap
       ELSE UNCHANGED <<initialized, documentStores, processingPipelines, queryPipelines,
                        heap>>
    /\ construct' = [construct EXCEPT !.pc = "return"]
    /\ UNCHANGED <<instance, made>>
    /\ UNCHANGED <<autoCreate, collections, points, stack, log, tempFiles, evidence>>
    /\ UNCHANGED <<valVars, genVars, queryVars, taskVars, detectVars>>

\* the caller receives the object
ConstructReturn ==
    /\ construct.pc = "return"
    /\ made' = Append(made, [cls |-> construct.cls, object |-> construct.self])
    /\ construct' = NotConstructing
    /\ UNCHANGED <<instance, initialized>>
    /\ UNCHANGED <<valVars, genVars, regVars, queryVars, taskVars, detectVars>>

ConstructSteps == ConstructNew \/ ConstructInit \/ ConstructReturn

\* The class has been constructed.
Built(k) == instance[k] # 0 /\ initialized[k]

\* The get-or-create calls, each on the object of its class; all three go
\* to DocumentStoreManager() for the store.
CallsOnSingletons ==
    /\ construct.pc = "idle"
    /\ Built("DocumentStoreManager")
    /\ \/ GetDocumentStoreCall(Worker) \/ GetDocumentStoreSteps(Worker)
       \/ /\ Built("IndexingPipelinesFactory")
          /\ GetProcessingPipelineCall(Worker) \/ GetProcessingPipelineSteps(Worker)
       \/ /\ Built("QueryPipelinesFactory")
          /\ GetOrganizationPipelineCall(Worker) \/ GetOrganizationPipelineSteps(Worker)

\* A process in which QueryPipelinesFactory has been constructed and the
\* other two classes have not.
InitSingletons ==
    /\ sql = <<>>
    /\ ComponentsBuilt({LLMConfigured})
    /\ detected = NoDetection
    /\ RegistryIdle
    /\ instance = [k \in Singletons |-> IF k = "QueryPipelinesFactory" THEN 1 ELSE 0]
    /\ initialized = [k \in Singletons |-> k = "QueryPipelinesFactory"]
    /\ construct = NotConstructing
    /\ made = <<>>

NextSingletons == ConstructSteps \/ CallsOnSingletons

SpecSingletons == InitSingletons /\ [][NextSingletons]_vars

NextConcurrent ==
    \E c \in Callers :
        \/ GetDocumentStoreCall(c) \/ GetDocumentStoreSteps(c)
        \/ GetProcessingPipelineCall(c) \/ GetProcessingPipelineSteps(c)

\* Get-or-create by two threads whose steps interleave.
SpecConcurrent == InitRegistry /\ [][NextConcurrent]_vars

NextIndexing ==
    \/ RunIndexingPipelineCall(Worker)
    \/ IdxStart(Worker) \/ IdxConvert(Worker) \/ IdxRun(Worker)
    \/ GetProcessingPipelineSteps(Worker) \/ GetDocumentStoreSteps(Worker)
    \/ GetOrganizationPipelineCall(Worker) \/ GetOrganizationPipelineSteps(Worker)
    \/ RunQuery(Worker)

\* Indexing runs and queries, one call after the other.
SpecIndexing == InitRegistry /\ [][NextIndexing]_vars

\* Requests whose runs leave run_indexing_pipeline on each of its exits.
StageRequests ==
    {IndexRequest("d1", "a.txt", "u1", "acme"),
     IndexRequest("d2", "gone.txt", "u2", "acme"),
     IndexRequest("d3", "in/bad.PDF", "u1", "acme"),
     IndexRequest("d4", "scan.pdf", "u2", "globex")}

NextStages ==
    \/ RunIndexingPipelineOn(Worker, StageRequests)
    \/ IdxStart(Worker) \/ IdxConvert(Worker) \/ IdxRun(Worker)
    \/ GetProcessingPipelineSteps(Worker) \/ GetDocumentStoreSteps(Worker)

\* Indexing runs on files that convert, fail to convert, hold no document
\* or cannot be downloaded.
SpecStages == InitRegistry /\ [][NextStages]_vars

-----------------------------------------------------------------------------
(* One run of the query pipeline: run_query passes targets and query to    *)
(* the router and returns the first reply of the final llm.  The run is    *)
(* synchronous; each action below is the run of one component.             *)

\* routes of the ConditionalRouter, in the order of the list
Routes ==
    <<[condition |-> "docstore", output_name |-> "docstore"],
      [condition |-> "sql", output_name |-> "sql"]>>

\* pipe.connect(sender, receiver) of build_query_pipeline, and the two
\* connections _setup_organization_retriever adds
ReceiverOf(output_name) ==
    IF output_name = "docstore" THEN "query_embedder" ELSE "sql_generator"

\* A router that gives no output when no condition holds.
ConditionalRouterSilent(targets) ==
    LET matching == {i \in DOMAIN Routes : Routes[i].condition \in Range(targets)} IN
    IF matching = {} THEN [raises |-> FALSE, output_name |-> ""]
    ELSE [raises |-> FALSE,
          output_name |-> Routes[CHOOSE i \in matching : \A j \in matching : i <= j].output_name]

\* ConditionalRouter.run(targets, query): the output of the first route whose
\* condition holds and of no other; NoRouteSelectedException when none holds
ConditionalRouterRun(targets) ==
    LET matching == {i \in DOMAIN Routes : Routes[i].condition \in Range(targets)} IN
    IF matching = {} THEN [raises |-> TRUE, output_name |-> ""]
    ELSE [raises |-> FALSE,
          output_name |-> Routes[CHOOSE i \in matching : \A j \in matching : i <= j].output_name]

\* A document on its way to the joiner.  Retrieved chunks carry a score; the
\* Document of SQLQuery.run has content only.
RetrievedDocument(chunk) ==
    [source |-> "doc_retriever", content |-> chunk.content, doc_id |-> chunk.doc_id,
     split_id |-> chunk.split_id, organization_id |-> chunk.organization_id,
     scored |-> TRUE]

SqlDocument ==
    [source |-> "sql_exec", content |-> <<"SQL Results">>, doc_id |-> "", split_id |-> 0,
     organization_id |-> "", scored |-> FALSE]

\* The orders in which a retriever can rank the chunks of S.
Rankings(S) ==
    {s \in [1..Cardinality(S) -> S] : \A i, j \in 1..Cardinality(S) : s[i] = s[j] => i = j}

HasScore(doc) == doc.scored

HasNoScore(doc) == ~doc.scored

RECURSIVE KeepFirst(_)
KeepFirst(docs) ==
    IF docs = <<>> THEN <<>>
    ELSE LET rest == KeepFirst(SubSeq(docs, 1, Len(docs) - 1)) IN
         IF docs[Len(docs)] \in Range(rest) THEN rest ELSE Append(rest, docs[Len(docs)])

\* DocumentJoiner() in its default mode: the lists it received in the order
\* of the connections, one document per id, sorted by score with the
\* documents that have no score last
JoinDocuments(lists) ==
    LET output == KeepFirst(Flatten(lists)) IN
    SelectSeq(output, HasScore) \o SelectSeq(output, HasNoScore)

\* The target lists a QueryRequest accepts: any list over the two tags.
TargetLists ==
    {<<>>, <<"docstore">>, <<"sql">>, <<"docstore", "sql">>, <<"sql", "docstore">>}

\* What the final llm does in one call, and the texts it replies with.
AnswerOutcomes == {"reply", "raises"}

AnswerReplies == {"a1", "a2"}

\* result["llm"]["replies"][0]
FirstReply(replies) == replies[1]

\* The query texts of a QueryRequest.
Queries == {"q1", "q2"}

\* A template without the question.
BuildPromptWithoutQuery(documents, query) ==
    <<"Context:">> \o [i \in 1..Len(documents) |-> documents[i].content]
        \o <<"Question:", "", "Answer:">>

\* The template of prompt_builder: the content of each document under
\* Context, then the query under Question
BuildPrompt(documents, query) ==
    <<"Context:">> \o [i \in 1..Len(documents) |-> documents[i].content]
        \o <<"Question:", query, "Answer:">>

\* Replies of the generation backend to the generation prompt in a run of
\* the whole pipeline.
QueryGenReplies ==
    {LLMSays(Fenced(<<"SELECT", " ", "x">>)),
     LLMSays(InProse(<<"DROP", " ", "x">>)),
     LLMSays(<<"SELECT", " ", "x", ";", "DROP">>),
     LLMSays(<<>>),
     LLMRaises}

HasRetriever(pipeline) == heap[pipeline].store # 0

\* pipeline.run raises: run_query raises the same exception
Abort(component, call, error) ==
    [qrun EXCEPT !.pc = "done", !.ran = Append(@, component),
                 !.calls = @ \o call, !.status = "raised", !.error = error]

\* pipeline.run_query(query, targets, organization_id, user_id)
RunQueryCall ==
    /\ qrun.pc = "idle"
    /\ \E p \in QueryPipelineObjects, o \in Orgs, targets \in TargetLists, query \in Queries :
          qrun' = [NoQueryRun EXCEPT !.pc = "router", !.pipeline = p, !.targets = targets,
                                     !.organization_id = o, !.status = "running",
                                     !.query = query]
    /\ UNCHANGED <<valVars, genVars, regVars, taskVars, detectVars, singletonVars>>

\* router
RouterRun ==
    /\ qrun.pc = "router"
    /\ LET out == ConditionalRouterRun(qrun.targets) IN
       qrun' = IF out.raises
               THEN Abort("router", <<>>,
                          Error("NoRouteSelectedException", "No route fired", ""))
               ELSE IF out.output_name = ""
               THEN [qrun EXCEPT !.pc = "result", !.ran = Append(@, "router")]
               ELSE [qrun EXCEPT !.pc = ReceiverOf(out.output_name),
                                 !.ran = Append(@, "router")]
    /\ UNCHANGED <<valVars, genVars, regVars, taskVars, detectVars, singletonVars>>

\* query_embedder; its embedding goes to doc_retriever when the pipeline has
\* one, and nowhere when it has none
QueryEmbedderRun ==
    /\ qrun.pc = "query_embedder"
    /\ qrun' = [qrun EXCEPT !.pc = IF HasRetriever(qrun.pipeline) THEN "doc_retriever"
                                   ELSE "result",
                            !.ran = Append(@, "query_embedder"),
                            !.calls = Append(@, "embedding model")]
    /\ UNCHANGED <<valVars, genVars, regVars, taskVars, detectVars, singletonVars>>

\* doc_retriever, connected to joiner.documents
DocRetrieverRun ==
    /\ qrun.pc = "doc_retriever"
    /\ \E chunks \in Retrievals(qrun.pipeline) : \E ranked \in Rankings(chunks) :
          qrun' = [qrun EXCEPT !.pc = "joiner",
                               !.ran = Append(@, "doc_retriever"),
                               !.calls = Append(@, "vector store"),
                               !.retrieved =
                                  [i \in 1..Len(ranked) |-> RetrievedDocument(ranked[i])]]
    /\ UNCHANGED <<valVars, genVars, regVars, taskVars, detectVars, singletonVars>>

\* sql_generator: SQLGenerator.run on the question; what it raises ends the run
SqlGeneratorComponentRun ==
    /\ qrun.pc = "sql_generator"
    /\ SQLGeneratorRunOn(QueryGenReplies)
    /\ qrun' = IF genResult'.status = "sql"
               THEN [qrun EXCEPT !.pc = "sql_exec", !.ran = Append(@, "sql_generator"),
                                 !.calls = Append(@, "generation backend")]
               ELSE Abort("sql_generator", <<"generation backend">>,
                          Error(genResult'.status, genResult'.message, genResult'.reason))

\* sql_exec: SQLQuery.run on the sql of sql_generator, connected to
\* joiner.documents
SqlExecComponentRun ==
    /\ qrun.pc = "sql_exec"
    /\ SQLQueryRunOn("SQLGenerator.run")
    /\ qrun' = IF runResult'.status = "documents"
               THEN [qrun EXCEPT !.pc = "joiner", !.ran = Append(@, "sql_exec"),
                                 !.calls = @ \o (IF executed' = <<>> THEN <<>>
                                                 ELSE <<"database">>),
                                 !.sql_documents = <<SqlDocument>>]
               ELSE Abort("sql_exec", IF executed' = <<>> THEN <<>> ELSE <<"database">>,
                          Error(runResult'.status, runResult'.message, runResult'.reason))

\* joiner, on the lists of the components that ran: sql_exec is connected
\* first, doc_retriever second
JoinerRun ==
    /\ qrun.pc = "joiner"
    /\ qrun' = [qrun EXCEPT !.pc = "prompt_builder",
                            !.ran = Append(@, "joiner"),
                            !.joined = JoinDocuments(<<qrun.sql_documents, qrun.retrieved>>)]
    /\ UNCHANGED <<valVars, genVars, regVars, taskVars, detectVars, singletonVars>>

\* prompt_builder, on the documents of the joiner and the query that
\* run_query hands to it
PromptBuilderRun ==
    /\ qrun.pc = "prompt_builder"
    /\ qrun' = [qrun EXCEPT !.pc = "llm",
                            !.ran = Append(@, "prompt_builder"),
                            !.prompt = BuildPrompt(qrun.joined, qrun.query)]
    /\ UNCHANGED <<valVars, genVars, regVars, taskVars, detectVars, singletonVars>>

\* llm, and return result["llm"]["replies"][0]
LlmRun ==
    /\ qrun.pc = "llm"
    /\ \E outcome \in AnswerOutcomes, reply \in AnswerReplies :
          qrun' = IF outcome = "reply"
                  THEN [qrun EXCEPT !.pc = "done", !.ran = Append(@, "llm"),
                                    !.calls = Append(@, "generation backend"),
                                    !.status = "answer",
                                    !.replies = <<reply>>,
                                    !.answer = FirstReply(<<reply>>)]
                  ELSE Abort("llm", <<"generation backend">>,
                             Error("Exception", "llm", ""))
    /\ UNCHANGED <<valVars, genVars, regVars, taskVars, detectVars, singletonVars>>

\* pipeline.run ended before llm ran: result has no key "llm"
ResultWithoutLlm ==
    /\ qrun.pc = "result"
    /\ qrun' = [qrun EXCEPT !.pc = "done", !.status = "raised",
                            !.error = Error("KeyError", "llm", "")]
    /\ UNCHANGED <<valVars, genVars, regVars, taskVars, detectVars, singletonVars>>

\* str(e): the message of the exception; the str of a KeyError is the repr of
\* the missing key
StrOfException(error) ==
    IF error.type = "KeyError" THEN <<"'", error.message, "'">>
    ELSE IF error.reason = "" THEN <<error.message>>
    ELSE <<error.message, ": ", error.reason>>

\* QueryResponse(answer=..., sources=None)
QueryResponse(answer) == [kind |-> "QueryResponse", answer |-> answer, sources |-> "None"]

\* A variant of execute_query without the except clause: what run_query
\* raises leaves execute_query.
ExecuteQueryPropagating(run) ==
    IF run.status = "raised" THEN [kind |-> "raised", answer |-> <<>>, sources |-> ""]
    ELSE QueryResponse(<<run.answer>>)

\* QueryService.execute_query on the outcome of run_query: the answer in a
\* QueryResponse, and for an Exception a QueryResponse with the text
\* f"Error executing query: {str(e)}"
ExecuteQuery(run) ==
    IF run.status = "raised"
    THEN QueryResponse(<<"Error executing query: ">> \o StrOfException(run.error))
    ELSE QueryResponse(<<run.answer>>)

\* QueryService.query_pipeline, the pipeline execute_query runs: the second
\* object of InitialHeap
ServicePipelines == {2}

\* The response with which execute_query has not returned yet.
NoResponse == [kind |-> "", answer |-> <<>>, sources |-> ""]

\* execute_query returns, once run_query has ended
ExecuteQueryReturn ==
    /\ qrun.pc = "done"
    /\ qrun.pipeline \in ServicePipelines
    /\ qrun.response = NoResponse
    /\ qrun' = [qrun EXCEPT !.response = ExecuteQuery(qrun)]
    /\ UNCHANGED <<valVars, genVars, regVars, taskVars, detectVars, singletonVars>>

\* The registries when the runs below start: run_indexing_pipeline("d1",
\* "a.txt", "u1", "acme") has succeeded, then get_organization_pipeline was
\* called for "acme" and for "globex".
IndexedChunks ==
    ProcessDocuments(
        StampAll(ConvertDocument("d1", "a.txt", <<"p", "", "q">>), "u1", "acme"))

IndexedAndBuilt ==
    /\ autoCreate = TRUE
    /\ collections = {CollectionName("acme")}
    /\ points = [n \in AllCollections |->
                    IF n = CollectionName("acme") THEN Range(IndexedChunks) ELSE {}]
    /\ heap = InitialHeap \o
                <<StoreObject("acme"), PipelineObject(3), QueryPipelineObject("acme", 3),
                  StoreObject("globex"), QueryPipelineObject("globex", 6)>>
    /\ documentStores = [o \in Orgs |-> IF o = "acme" THEN 3 ELSE 6]
    /\ processingPipelines = [o \in Orgs |-> IF o = "acme" THEN 4 ELSE 0]
    /\ queryPipelines = [o \in Orgs |-> IF o = "acme" THEN 5 ELSE 7]
    /\ stack = [c \in Callers |-> <<>>]
    /\ tempFiles = {}
    /\ evidence = NoEvidence
    /\ log = <<[Finished(Worker, "run_indexing_pipeline", "acme", "success", 4)
                   EXCEPT !.request = IndexRequest("d1", "a.txt", "u1", "acme"),
                          !.chunks = IndexedChunks,
                          !.collection = CollectionName("acme"),
                          !.written_to = CollectionName("acme")],
               Finished(Worker, "get_organization_pipeline", "acme", "ok", 5),
               Finished(Worker, "get_organization_pipeline", "globex", "ok", 7)>>

InitQuery ==
    /\ sql = <<>>
    /\ ComponentsBuilt({LLMConfigured})
    /\ detected = NoDetection
    /\ SingletonsBuilt
    /\ IndexedAndBuilt
    /\ qrun = NoQueryRun
    /\ tasks = NoTasks

NextQuery ==
    \/ RunQueryCall \/ RouterRun
    \/ QueryEmbedderRun \/ DocRetrieverRun
    \/ SqlGeneratorComponentRun \/ SqlExecComponentRun
    \/ JoinerRun \/ PromptBuilderRun \/ LlmRun
    \/ ResultWithoutLlm
    \/ ExecuteQueryReturn

\* One call of run_query on any of the query pipelines, with any target list.
SpecQuery == InitQuery /\ [][NextQuery]_vars

-----------------------------------------------------------------------------
(* The collections: create_collection, removal of a store and indexing.    *)

\* Whether the store has made its client: _client is None until the store
\* is first used, and a pipeline that got as far as its writer has used it.
ClientStates(store) ==
    IF \E i \in IndexRunsEnded("success") : heap[log[i].object].store = store
    THEN {"initialised"}
    ELSE {"none", "initialised"}

\* document_store._client.get_collection(collection_name) returns: the
\* client is there and the collection exists
GetCollectionReturns(client, name) == client = "initialised" /\ name \in collections

\* collection_info.points_count, collection_info.vectors_count: one vector
\* for each chunk
PointsCount(name) == Cardinality(points[name])

\* DocumentStoreManager().create_collection(organization_id)
CreateCollectionCall(c) ==
    \E o \in Orgs : Call(c, "create_collection", "store", o, NoRequest)

\* document_store = self.get_document_store(organization_id)
CcGetStore(c) ==
    /\ Running(c, "create_collection", "store")
    /\ stack' = [stack EXCEPT ![c] =
                    <<[Top(c) EXCEPT !.pc = "info"],
                      Frame("get_document_store", "check", Top(c).organization_id,
                            NoRequest)>>]
    /\ UNCHANGED <<autoCreate, collections, points, heap, documentStores,
                   processingPipelines, queryPipelines, log, tempFiles, evidence>>
    /\ UNCHANGED <<valVars, genVars, queryVars, taskVars, detectVars, singletonVars>>

\* The inner try: get_collection on the client of the store, and when that
\* raises, create_collection on a client of its own, which raises "already
\* exists" for a collection that is there.
CcInfo(c) ==
    /\ Running(c, "create_collection", "info")
    /\ \E client \in ClientStates(Top(c).ret) :
          LET o == Top(c).organization_id
              name == CreateCollectionName(o)
              exists == GetCollectionReturns(client, name) \/ name \in collections
          IN  /\ collections' = collections \cup {name}
              /\ log' = Append(log,
                     [Finished(c, "create_collection", o,
                               IF exists THEN "exists" ELSE "created", Top(c).ret)
                         EXCEPT !.collection = name,
                                !.points_count = IF exists THEN PointsCount(name) ELSE 0,
                                !.message = IF exists THEN "already exists"
                                            ELSE "created successfully"])
    /\ stack' = [stack EXCEPT ![c] = <<>>]
    /\ UNCHANGED <<autoCreate, points, heap, documentStores, processingPipelines,
                   queryPipelines, tempFiles, evidence>>
    /\ UNCHANGED <<valVars, genVars, queryVars, taskVars, detectVars, singletonVars>>

CreateCollectionSteps(c) == CcGetStore(c) \/ CcInfo(c)

\* The requests of the specification of the collections.
CollectionRequests ==
    {IndexRequest("d1", "a.txt", "u1", "acme"),
     IndexRequest("d1", "a.txt", "u2", "globex")}

NextCollections ==
    \/ RunIndexingPipelineOn(Worker, CollectionRequests)
    \/ IdxStart(Worker) \/ IdxConvert(Worker) \/ IdxRun(Worker)
    \/ GetProcessingPipelineSteps(Worker) \/ GetDocumentStoreSteps(Worker)
    \/ CreateCollectionCall(Worker) \/ CreateCollectionSteps(Worker)
    \/ RemoveDocumentStore(Worker)

\* Indexing runs, create_collection and removals, one call after the other.
SpecCollections == InitRegistry /\ [][NextCollections]_vars

-----------------------------------------------------------------------------
(* The task layer: DocumentService.index_document dispatches the task      *)
(* index_document, a worker runs it, and what the run raises goes to        *)
(* self.retry.                                                             *)

\* max_retries of self.retry(exc=exc, countdown=60, max_retries=3)
MaxRetries == 3

\* The payloads of the tasks: doc_id, object_path and the two headers.  The
\* header X-Organization-Id may be missing; "" stands for None.
TaskPayloads ==
    {IndexRequest("d1", "a.txt", "u1", "acme"),
     IndexRequest("d4", "scan.pdf", "u2", "globex"),
     IndexRequest("d5", "a.txt", "u1", "")}

\* What the last call of run_indexing_pipeline returned or raised.
LastOutcome ==
    [kind |-> log[Len(log)].status, message |-> log[Len(log)].message,
     text |-> log[Len(log)].text]

ReturnedResult(outcome) == outcome.kind \in {"success", "error"}

\* A retry that never gives up.
RetryForever(task, exc) ==
    [task EXCEPT !.state = "RETRY", !.retries = @ + 1, !.result = exc]

\* Task.retry(exc, countdown, max_retries): the task is sent again with
\* request.retries + 1, unless that exceeds max_retries: then exc is raised
\* and the task fails with it
Retry(task, exc) ==
    IF task.retries + 1 > MaxRetries
    THEN [task EXCEPT !.state = "FAILURE", !.result = exc]
    ELSE [task EXCEPT !.state = "RETRY", !.retries = @ + 1, !.result = exc]

\* A worker that takes a task whatever it is doing.
WorkerNeverBusy(c) == TRUE

\* worker_pool='solo', worker_concurrency=1, worker_prefetch_multiplier=1:
\* the worker takes a task when it runs none
WorkerIdle(c) == stack[c] = <<>> /\ \A j \in Jobs : tasks[j].state # "STARTED"

\* DocumentService.index_document(request_data, headers): the payload is
\* dispatched as it is
Dispatch(j) ==
    /\ tasks[j].state = "none"
    /\ \A i \in Jobs : i < j => tasks[i].state # "none"
    /\ \E payload \in TaskPayloads :
          tasks' = [tasks EXCEPT ![j] = [NoTask EXCEPT !.payload = payload,
                                                       !.state = "PENDING"]]
    /\ UNCHANGED <<valVars, genVars, regVars, queryVars, detectVars, singletonVars>>

\* The worker starts index_document(payload) up to the call of
\* run_indexing_pipeline.  The record of the calls that finished is kept for
\* the run of one task: it starts empty.
TaskStart(c, j) ==
    /\ WorkerIdle(c)
    /\ tasks[j].state = "PENDING"
    /\ tasks' = [tasks EXCEPT ![j].state = "STARTED", ![j].attempts = @ + 1]
    /\ stack' = [stack EXCEPT ![c] = <<Frame("run_indexing_pipeline", "start",
                                              tasks[j].payload.organization_id,
                                              tasks[j].payload)>>]
    /\ log' = <<>>
    /\ UNCHANGED <<autoCreate, collections, points, heap, documentStores,
                   processingPipelines, queryPipelines, tempFiles, evidence>>
    /\ UNCHANGED <<valVars, genVars, queryVars, detectVars, singletonVars>>

\* run_indexing_pipeline has returned or raised: return result, or
\* except Exception as exc: raise self.retry(exc=exc, ...)
TaskEnd(c, j) ==
    /\ tasks[j].state = "STARTED"
    /\ stack[c] = <<>>
    /\ tasks' = [tasks EXCEPT ![j] =
                    IF ReturnedResult(LastOutcome)
                    THEN [@ EXCEPT !.state = "SUCCESS", !.result = LastOutcome]
                    ELSE Retry(@, LastOutcome)]
    /\ UNCHANGED <<valVars, genVars, regVars, queryVars, detectVars, singletonVars>>

\* countdown=60 has passed: the task is delivered again
Redeliver(j) ==
    /\ tasks[j].state = "RETRY"
    /\ tasks' = [tasks EXCEPT ![j].state = "PENDING"]
    /\ UNCHANGED <<valVars, genVars, regVars, queryVars, detectVars, singletonVars>>

\* What the worker and the broker do without a client.
WorkerSteps ==
    \/ \E j \in Jobs : TaskStart(Worker, j) \/ TaskEnd(Worker, j) \/ Redeliver(j)
    \/ IdxStart(Worker) \/ IdxConvert(Worker) \/ IdxRun(Worker)
    \/ GetProcessingPipelineSteps(Worker) \/ GetDocumentStoreSteps(Worker)

NextTasks == (\E j \in Jobs : Dispatch(j)) \/ WorkerSteps

\* Dispatched tasks and one worker that keeps running: a task it can take, a
\* run it has started and a countdown do not wait forever.
SpecTasks == InitRegistry /\ [][NextTasks]_vars /\ WF_vars(WorkerSteps)

-----------------------------------------------------------------------------
(* Properties of the validator and of SQLQuery.run.                        *)

\* The first white-space delimited token of the raw text, in upper case.
RefFirstToken(q) == UpperSeq(TakeWord(StripLeft(q)))

RefFirstTokenAllowed(q) == \E a \in AllowedOperations : RefFirstToken(q) = <<a>>

\* SQL lexing of the raw text: where the scanner is after the first n atoms.
RECURSIVE LexAfter(_, _)
LexAfter(q, n) ==
    IF n = 0 THEN "code"
    ELSE LET st == LexAfter(q, n - 1) IN
         CASE st = "code" /\ q[n] = "'" -> "single"
           [] st = "code" /\ q[n] = "\"" -> "double"
           [] st = "single" /\ q[n] = "'" -> "code"
           [] st = "double" /\ q[n] = "\"" -> "code"
           [] OTHER -> st

\* Every quote of q is closed.
QuotesClosed(q) == LexAfter(q, Len(q)) = "code"

\* Atom i is a deny-listed keyword standing as a word of its own.
KeywordWordAt(q, i) ==
    /\ Upper(q[i]) \in DangerousKeywords
    /\ (i = 1 \/ ~IsWordAtom(Upper(q[i - 1])))
    /\ (i = Len(q) \/ ~IsWordAtom(Upper(q[i + 1])))

\* A deny-listed keyword appears as a word outside every string literal.
KeywordOutsideLiteral(q) ==
    QuotesClosed(q) /\ \E i \in 1..Len(q) : KeywordWordAt(q, i) /\ LexAfter(q, i - 1) = "code"

\* Deny-listed keywords appear, and only inside string literals.
KeywordOnlyInsideLiterals(q) ==
    /\ QuotesClosed(q)
    /\ \A i \in 1..Len(q) : Upper(q[i]) \in DangerousKeywords => LexAfter(q, i - 1) # "code"

\* A semicolon outside every literal is followed by a deny-listed verb.
SeparatorThenVerb(q) ==
    /\ QuotesClosed(q)
    /\ \E i \in 1..Len(q) :
          /\ q[i] = ";"
          /\ LexAfter(q, i - 1) = "code"
          /\ LET j == SkipWs(q, i + 1) IN j <= Len(q) /\ KeywordWordAt(q, j)

RuleLayerRan == vpc \in {"_rule_based_safety_check", "is_safe_query"} /\ ~IsBlank(sql)

\* C1: SQLQuery.run hands the query to the database only when is_safe_query
\* returned safe for that very string in the call; on an unsafe verdict it
\* executes nothing and raises an error that carries the validator's reason.
C1_ExecuteOnlyIfSafe ==
    vpc = "SQLQuery.run" =>
        /\ verdict = IsSafeQuery(sql, useLLM, llmReply)
        /\ executed # <<>> => verdict.safe
        /\ \A i \in 1..Len(executed) : executed[i] \in {TimeoutPragma, sql}
        /\ ~verdict.safe =>
              /\ executed = <<>>
              /\ runResult.status = "ValueError"
              /\ runResult.message = "SQL query failed safety validation"
              /\ runResult.reason = verdict.reason
              /\ runResult.query = sql

C1_Witness ==
    /\ vpc = "SQLQuery.run"
    /\ sql = <<"SELECT", " ", "DROP">>
    /\ runResult.status = "ValueError"
    /\ runResult.reason = "Dangerous keyword detected in executable context"
    /\ executed = <<>>

\* C8: a string whose first token is not one of the allowed read-only verbs
\* (compared without regard to case, after trimming) is unsafe for the rule
\* layer and for is_safe_query, and so is the empty or all-blank string.
C8_FirstTokenGate ==
    /\ (vpc = "_rule_based_safety_check" /\ ~RefFirstTokenAllowed(sql)) => ~ruleVerdict.safe
    /\ (vpc = "is_safe_query" /\ ~RefFirstTokenAllowed(sql)) => ~verdict.safe
    /\ (vpc = "_rule_based_safety_check" /\ IsBlank(sql)) => ~ruleVerdict.safe
    /\ (vpc = "is_safe_query" /\ IsBlank(sql)) => ~verdict.safe

C8_Witness ==
    /\ vpc = "_rule_based_safety_check"
    /\ RefFirstToken(sql) = <<"SELECT", "X">>
    /\ ruleVerdict = Verdict(FALSE, "Query must start with allowed operations")

\* C9: the rule layer is unsafe whenever a deny-listed keyword stands as a
\* word outside every string literal, and it does not give the keyword
\* reason when the keywords of the string are all inside string literals.
C9_KeywordOutsideLiteral ==
    RuleLayerRan =>
        /\ KeywordOutsideLiteral(sql) => ~ruleVerdict.safe
        /\ KeywordOnlyInsideLiterals(sql) =>
              ruleVerdict.reason # "Dangerous keyword detected in executable context"

\* C10: a string in which a statement separator is followed by a mutating
\* verb is unsafe.
C10_SeparatorInjection ==
    RuleLayerRan => (SeparatorThenVerb(sql) => ~ruleVerdict.safe)


\* C2: every SQL string handed to conn.execute in the pipeline was validated
\* twice, in this order: by SQLGenerator on the string it extracted from the
\* reply, then by SQLQuery on the same string before the execution; the two
\* validations share the rule layer and the use_llm setting.
C2_ValidatedTwice ==
    \A i \in 1..Len(executed) :
        executed[i] # TimeoutPragma =>
            /\ Len(gates) = 2
            /\ gates[1].gate = "SQLGenerator" /\ gates[2].gate = "SQLQuery"
            /\ gates[1].query = ExtractSQL(genReply.text)
            /\ gates[1].query = executed[i] /\ gates[2].query = executed[i]
            /\ gates[1].verdict.safe /\ gates[2].verdict.safe
            /\ gates[1].rule = gates[2].rule
            /\ gates[1].use_llm = gates[2].use_llm

C2_Witness ==
    /\ vpc = "SQLQuery.run"
    /\ HasFence(genReply.text)
    /\ executed = <<TimeoutPragma, <<"SELECT", " ", "x">>>>
    /\ gates[2].use_llm
    /\ runResult.status = "documents"

-----------------------------------------------------------------------------
(* Properties of the registries, the indexing run and the retrieval.       *)

GetOrCreate == {"get_document_store", "get_processing_pipeline", "get_organization_pipeline"}

\* Entry i of the log is a get-or-create that returned an object.
GotObject(i) == log[i].fn \in GetOrCreate /\ log[i].status = "ok"

\* The call that removes what fn caches.
RemovalOf(fn) ==
    CASE fn = "get_document_store" -> "remove_document_store"
      [] fn = "get_organization_pipeline" -> "clear_organization_pipeline"
      [] OTHER -> "no removal"

NoRemovalBetween(i, j) ==
    \A k \in (i + 1)..(j - 1) :
        ~(log[k].fn = RemovalOf(log[i].fn)
          /\ log[k].organization_id = log[i].organization_id)

NeverRemoved(fn, o) ==
    \A k \in 1..Len(log) : ~(log[k].fn = RemovalOf(fn) /\ log[k].organization_id = o)

\* The document store behind a returned object.
StoreOf(object) ==
    IF heap[object].kind = "QdrantDocumentStore" THEN object ELSE heap[object].store

StoresBuilt(o) ==
    {x \in 1..Len(heap) :
        heap[x].kind = "QdrantDocumentStore" /\ heap[x].index = CollectionName(o)}

PipelinesBuilt(o) ==
    {x \in 1..Len(heap) : heap[x].kind = "Pipeline" /\ heap[x].store \in StoresBuilt(o)}

QueryPipelinesBuilt(o) ==
    {x \in 1..Len(heap) : heap[x].kind = "QueryPipeline" /\ heap[x].organization_id = o}

BuiltBy(fn, o) ==
    CASE fn = "get_document_store" -> StoresBuilt(o)
      [] fn = "get_processing_pipeline" -> PipelinesBuilt(o)
      [] OTHER -> QueryPipelinesBuilt(o)

\* C3: in a process that makes one call at a time, get-or-create for two
\* different organizations returns different objects on different stores;
\* two calls for the same organization with no removal in between return the
\* same object; and while nothing was removed the object of an organization
\* was constructed exactly once.
C3_DistinctAndCached ==
    /\ \A i, j \in 1..Len(log) :
          (GotObject(i) /\ GotObject(j) /\ log[i].fn = log[j].fn) =>
             IF log[i].organization_id # log[j].organization_id
             THEN /\ log[i].object # log[j].object
                  /\ StoreOf(log[i].object) # StoreOf(log[j].object)
                  /\ heap[StoreOf(log[i].object)].index # heap[StoreOf(log[j].object)].index
             ELSE (i < j /\ NoRemovalBetween(i, j)) => log[i].object = log[j].object
    /\ \A i \in 1..Len(log) :
          GotObject(i) =>
             /\ log[i].object \in BuiltBy(log[i].fn, log[i].organization_id)
             /\ NeverRemoved("get_document_store", log[i].organization_id)
                   => Cardinality(StoresBuilt(log[i].organization_id)) = 1
             /\ NeverRemoved(log[i].fn, log[i].organization_id)
                   => Cardinality(BuiltBy(log[i].fn, log[i].organization_id)) = 1

C3_Witness ==
    /\ Len(log) = 3
    /\ \A i \in 1..3 : log[i].fn = "get_processing_pipeline" /\ log[i].status = "ok"
    /\ log[1].organization_id = log[2].organization_id
    /\ log[1].object = log[2].object
    /\ log[3].organization_id # log[1].organization_id
    /\ log[3].object # log[1].object

\* C4: when the steps of two callers interleave, at most one document store
\* and at most one processing pipeline is constructed for an organization,
\* and the callers of one get-or-create receive the same object.
C4_OneConstructionUnderRace ==
    /\ \A o \in Orgs :
          Cardinality(StoresBuilt(o)) <= 1 /\ Cardinality(PipelinesBuilt(o)) <= 1
    /\ \A i, j \in 1..Len(log) :
          (GotObject(i) /\ GotObject(j) /\ log[i].fn = log[j].fn
           /\ log[i].organization_id = log[j].organization_id)
             => log[i].object = log[j].object

\* C5: when the retrieval branch is active for a query made with
\* organization_id T, every chunk handed over as evidence carries
\* organization_id T and is stored in the collection of T.
C5_RetrievalIsolation ==
    evidence.retrieval =>
        \A chunk \in evidence.chunks :
            /\ chunk.organization_id = evidence.organization_id
            /\ chunk \in points[CollectionName(evidence.organization_id)]

IndexedOk(i) == log[i].fn = "run_indexing_pipeline" /\ log[i].status = "success"

\* C6: the documents of a run are stamped with the user_id and the
\* organization_id of the request before the pipeline runs; every chunk a run
\* wrote carries both and went to the collection of the organization of the
\* request; every stored chunk was written by such a run and lies in the
\* collection of the organization it is stamped with.
C6_StampedAndRouted ==
    /\ \A c \in Callers :
          (stack[c] # <<>> /\ stack[c][1].fn = "run_indexing_pipeline"
           /\ stack[c][1].pc = "run") =>
             /\ stack[c][1].documents # <<>>
             /\ \A k \in 1..Len(stack[c][1].documents) :
                   /\ stack[c][1].documents[k].user_id = stack[c][1].request.user_id
                   /\ stack[c][1].documents[k].organization_id =
                         stack[c][1].request.organization_id
    /\ \A i \in 1..Len(log) :
          IndexedOk(i) =>
             /\ log[i].written_to = CollectionName(log[i].request.organization_id)
             /\ log[i].chunks # <<>>
             /\ \A k \in 1..Len(log[i].chunks) :
                   /\ log[i].chunks[k].organization_id = log[i].request.organization_id
                   /\ log[i].chunks[k].user_id = log[i].request.user_id
                   /\ log[i].chunks[k].doc_id = log[i].request.doc_id
                   /\ log[i].chunks[k] \in points[log[i].written_to]
    /\ \A n \in AllCollections :
          \A chunk \in points[n] :
             /\ n = CollectionName(chunk.organization_id)
             /\ \E i \in 1..Len(log) : IndexedOk(i) /\ chunk \in Range(log[i].chunks)

C6_Witness ==
    /\ \E i, j \in 1..Len(log) :
          /\ IndexedOk(i) /\ IndexedOk(j)
          /\ log[i].request.organization_id = "acme" /\ log[i].request.user_id = "u1"
          /\ log[j].request.organization_id = "globex" /\ log[j].request.user_id = "u2"
    /\ \A o \in Orgs : Cardinality(points[CollectionName(o)]) = 2

\* C7: after two successful runs for the same doc_id and organization whose
\* contents differ, the chunks of that doc_id in the collection are those of
\* the later run and no others.
C7_ReindexReplaces ==
    \A i, j \in 1..Len(log) :
        (/\ i < j
         /\ IndexedOk(i) /\ IndexedOk(j)
         /\ log[i].request.doc_id = log[j].request.doc_id
         /\ log[i].request.organization_id = log[j].request.organization_id
         /\ log[i].chunks # log[j].chunks
         /\ \A k \in (j + 1)..Len(log) : ~IndexedOk(k))
        => {chunk \in points[log[j].written_to] : chunk.doc_id = log[j].request.doc_id}
              = Range(log[j].chunks)

-----------------------------------------------------------------------------
(* Properties of the semantic layer.                                       *)

\* The reply reads SAFE: <reason>, white space around it aside.
ReplySaysSafe(text) ==
    \E i \in 1..Len(text) : text[i] = "SAFE:" /\ \A j \in 1..(i - 1) : IsWs(text[j])

\* The reply reads UNSAFE: <reason>.
ReplySaysUnsafe(text) ==
    \E i \in 1..Len(text) : text[i] = "UNSAFE:" /\ \A j \in 1..(i - 1) : IsWs(text[j])

\* is_safe_query asked the backend and the backend replied.
BackendReplied == vpc = "is_safe_query" /\ llmConsulted /\ ~llmReply.raises

\* C11: when the backend is configured, the rule layer passed and the backend
\* replied, the verdict is safe exactly when the reply reads SAFE: <reason>;
\* UNSAFE: <reason> and every other reply, the empty one included, give unsafe.
C11_SafeOnlyOnSafeReply ==
    BackendReplied =>
        /\ ruleVerdict.safe
        /\ verdict.safe <=> ReplySaysSafe(llmReply.text)
        /\ ReplySaysUnsafe(llmReply.text) => verdict = Verdict(FALSE, "LLM validation failed")
        /\ (~ReplySaysSafe(llmReply.text) /\ ~ReplySaysUnsafe(llmReply.text))
              => verdict = Verdict(FALSE, "LLM validation inconclusive")

C11_Witness ==
    /\ BackendReplied
    /\ llmReply.text = <<>>
    /\ ~verdict.safe
    /\ sql = <<"SELECT", " ", "x">>

\* C12: when the call of the backend raises, is_safe_query returns, and what
\* it returns is the verdict of the rule layer for the same string.
C12_FallbackToRuleVerdict ==
    (vpc = "is_safe_query" /\ llmConsulted /\ llmReply.raises) =>
        /\ verdict = RuleBasedSafetyCheck(sql)
        /\ verdict = ruleVerdict
        /\ verdict = Verdict(TRUE, "Query passed rule-based safety checks")

C12_Witness ==
    /\ vpc = "is_safe_query"
    /\ llmConsulted
    /\ llmReply.raises
    /\ verdict.safe
    /\ sql = <<"SELECT", " ", "x">>

\* C31: a call of SQLQuery.run that executed the query and returned hands
\* on exactly one document; the document holds the rows that were fetched up
\* to max_rows of them, never more; and a call that raised hands on none.
C31_OneDocumentAtMostMaxRows ==
    /\ runResult.status = "documents" =>
          /\ runResult.documents = 1
          /\ runResult.rows <= MaxRows
          /\ runResult.rows <= runResult.fetched
          /\ runResult.fetched <= MaxRows => runResult.rows = runResult.fetched
          /\ runResult.fetched > MaxRows => runResult.rows = MaxRows
          /\ executed # <<>> /\ executed[Len(executed)] = runResult.query
    /\ runResult.status # "documents" => runResult.documents = 0 /\ runResult.rows = 0

\* The backend returned more rows than max_rows.
C31_Witness ==
    /\ runResult.status = "documents"
    /\ runResult.fetched = MaxRows + 1
    /\ runResult.rows = MaxRows
    /\ runResult.documents = 1

-----------------------------------------------------------------------------
(* Properties of a run of the query pipeline.                              *)

Asked(tag) == tag \in Range(qrun.targets)

Ran(component) == component \in Range(qrun.ran)

Called(backend) == backend \in Range(qrun.calls)

FromSource(source) == {i \in DOMAIN qrun.joined : qrun.joined[i].source = source}

RetrievalBranchRan == Ran("query_embedder") /\ Ran("doc_retriever")

StructuredBranchRan == Ran("sql_generator") /\ Ran("sql_exec")

\* C13: in a run that ends with an answer, embed and retrieve have run if and
\* only if "docstore" is in targets, generate, validate and execute have run
\* if and only if "sql" is in targets, and a branch whose tag is not in
\* targets has called no backend and has no document in the join.
C13_BranchesFollowTargets ==
    qrun.status = "answer" =>
        /\ Asked("docstore") <=> RetrievalBranchRan
        /\ Asked("sql") <=> StructuredBranchRan
        /\ ~Asked("docstore") =>
              /\ ~Called("embedding model") /\ ~Called("vector store")
              /\ FromSource("doc_retriever") = {}
        /\ ~Asked("sql") =>
              /\ gates = <<>> /\ executed = <<>> /\ genReply = NoReply
              /\ FromSource("sql_exec") = {}

\* C14: a run with an empty target list ends in the router, which raises
\* before any other component has run and before any backend is called; the
\* call never returns an answer.
C14_EmptyTargetsRejected ==
    (qrun.pc # "idle" /\ qrun.targets = <<>>) =>
        /\ qrun.status # "answer"
        /\ qrun.calls = <<>> /\ gates = <<>> /\ executed = <<>> /\ genReply = NoReply
        /\ \A i \in DOMAIN qrun.ran : qrun.ran[i] = "router"
        /\ qrun.pc = "done" =>
              /\ qrun.status = "raised"
              /\ qrun.error.type = "NoRouteSelectedException"
              /\ qrun.ran = <<"router">>

C14_Witness ==
    /\ qrun.pc = "done" /\ qrun.targets = <<>>
    /\ qrun.status = "raised" /\ qrun.ran = <<"router">>

\* C15: in a run with both tags in targets that ends with an answer, the
\* documents given to the prompt are the retrieved documents followed by the
\* documents of the structured query.
C15_RetrievalBeforeStructured ==
    (Asked("docstore") /\ Asked("sql") /\ qrun.status = "answer") =>
        /\ qrun.joined = qrun.retrieved \o <<SqlDocument>>
        /\ qrun.prompt = BuildPrompt(qrun.joined, qrun.query)

UnsafeGates == {i \in DOMAIN gates : ~gates[i].verdict.safe}

\* C16: in a run whose structured branch has started, once a validator has
\* returned unsafe for the generated SQL the run is over: nothing was handed
\* to the database, joiner, prompt_builder and llm have not run, and
\* run_query raises a ValueError whose text holds the reason of the verdict.
C16_UnsafeSqlAborts ==
    (Ran("sql_generator") /\ UnsafeGates # {}) =>
        /\ UnsafeGates = {Len(gates)}
        /\ executed = <<>> /\ ~Called("database")
        /\ ~Ran("joiner") /\ ~Ran("prompt_builder") /\ ~Ran("llm")
        /\ qrun.joined = <<>> /\ qrun.prompt = <<>>
        /\ qrun.pc = "done" /\ qrun.status = "raised"
        /\ qrun.error.type = "ValueError"
        /\ qrun.error.message \in {"Generated SQL query failed safety validation",
                                   "SQL query failed safety validation"}
        /\ qrun.error.reason = gates[Len(gates)].verdict.reason
        /\ qrun.error.reason # ""

C16_Witness ==
    /\ qrun.pc = "done" /\ qrun.ran = <<"router", "sql_generator">>
    /\ gates # <<>> /\ ~gates[1].verdict.safe
    /\ qrun.error = Error("ValueError", "Generated SQL query failed safety validation",
                          gates[1].verdict.reason)

\* The tenants with no chunk in their collection.
TenantsWithoutPoints == {o \in Orgs : points[CollectionName(o)] = {}}

LlmRaised == qrun.status = "raised" /\ qrun.ran # <<>> /\ qrun.ran[Len(qrun.ran)] = "llm"

\* C27: a run with targets ["docstore"] for a tenant whose collection holds
\* no chunk, in which the generation backend replies, ends with an answer:
\* nothing was retrieved, the joiner hands no document on, the prompt holds
\* an empty context and the query, and the answer is the reply of the
\* backend.
C27_EmptyCollectionAnswered ==
    (/\ qrun.pc = "done"
     /\ qrun.targets = <<"docstore">>
     /\ qrun.organization_id \in TenantsWithoutPoints
     /\ ~LlmRaised)
    => /\ qrun.status = "answer"
       /\ qrun.retrieved = <<>>
       /\ qrun.joined = <<>>
       /\ qrun.prompt = <<"Context:", "Question:", qrun.query, "Answer:">>
       /\ qrun.replies # <<>>
       /\ qrun.answer = qrun.replies[1]

\* The places of a component in the order in which the components ran.
RunsOf(component) == {i \in DOMAIN qrun.ran : qrun.ran[i] = component}

BranchComponents == {"query_embedder", "doc_retriever", "sql_generator", "sql_exec"}

-----------------------------------------------------------------------------
(* Properties of an indexing run.                                          *)

StageOrder == <<"convert", "stamp", "clean", "split", "embed">>

\* A chunk that was converted, stamped, cleaned, split and embedded, in that
\* order: no empty line, no more than SplitLength words, an embedding and a
\* tenant.
FullyProcessed(chunk) ==
    /\ chunk.stages = StageOrder
    /\ \A k \in DOMAIN chunk.content : chunk.content[k] # ""
    /\ Len(chunk.content) <= SplitLength
    /\ chunk.embedding = "vector"
    /\ chunk.organization_id # "" /\ chunk.user_id # ""

\* C17: every chunk in a collection was written by an indexing run that
\* ended in success, and every chunk such a run wrote had been converted,
\* stamped, cleaned, split and embedded by it, in that order.
C17_StagesInOrder ==
    /\ \A n \in AllCollections : \A chunk \in points[n] :
          /\ FullyProcessed(chunk)
          /\ \E i \in IndexRunsEnded("success") :
                log[i].written_to = n /\ chunk \in Range(log[i].chunks)
    /\ \A i \in IndexRunsEnded("success") :
          \A k \in DOMAIN log[i].chunks : FullyProcessed(log[i].chunks[k])

C17_Witness ==
    \E i \in IndexRunsEnded("success") :
        /\ Len(log[i].chunks) = 2
        /\ Range(log[i].chunks) \subseteq points[log[i].written_to]
        /\ log[i].request.object_path = "a.txt"

\* The run of caller c is past the creation of its temporary file.
PastTempFile(c) ==
    /\ stack[c] # <<>>
    /\ stack[c][1].fn = "run_indexing_pipeline"
    /\ stack[c][1].pc \in {"convert", "run"}

\* C18: the temporary file of a run exists from its creation until the run
\* ends, and no longer: when no call of the caller is running, whether the
\* last run returned success, returned the error result or raised, the file
\* is gone.
C18_TempFileRemoved ==
    \A c \in Callers :
        /\ PastTempFile(c) => c \in tempFiles
        /\ stack[c] = <<>> => c \notin tempFiles

C18_Witness ==
    /\ tempFiles = {} /\ stack[Worker] = <<>>
    /\ IndexRunsEnded("success") # {}
    /\ \E i \in IndexRunsEnded("error") : log[i].message = "No documents were extracted"
    /\ \E i \in IndexRunsEnded("Exception") : log[i].text[4] = "embedder raises"

\* What download, the document store and the stages raise.
OriginalErrors == {"download failed", "embedder raises", "Collection does not exist"}

\* C19: a run that raises raises an error whose text holds the doc_id of the
\* request and the text of the exception that download or a stage raised; a
\* run whose download fails ends that way; and a run that returned success
\* has written every chunk it reports.
C19_ErrorsWrapped ==
    /\ \A i \in IndexRunsEnded("Exception") :
          \E original \in OriginalErrors :
             log[i].text = <<"Failed to index document ", log[i].request.doc_id, ": ",
                             original>>
    /\ \A i \in IndexRuns :
          DownloadFails(log[i].request.object_path) =>
             /\ log[i].status = "Exception"
             /\ log[i].text[4] = "download failed"
    /\ \A i \in IndexRunsEnded("success") :
          /\ log[i].text = <<>>
          /\ log[i].chunks # <<>>
          /\ Range(log[i].chunks) \subseteq points[log[i].written_to]

C19_Witness ==
    /\ \E i \in IndexRunsEnded("Exception") :
          log[i].text = <<"Failed to index document ", "d2", ": ", "download failed">>
    /\ \E i \in IndexRunsEnded("Exception") :
          log[i].text = <<"Failed to index document ", "d1", ": ", "embedder raises">>

RECURSIVE ContentOf(_)
ContentOf(chunks) ==
    IF chunks = <<>> THEN <<>> ELSE Head(chunks).content \o ContentOf(Tail(chunks))

ConversionFailed(i) == i \in IndexRuns /\ ConverterRaises(log[i].request.object_path)

\* C20: when the converter raises, convert_document returns one document:
\* the run does not end with the error result, and when it ends in success
\* the chunks it wrote are the pieces of one placeholder whose content is
\* the error text and whose metadata holds the doc_id, the object path, the
\* detected type, the file name and the size of the file.
C20_PlaceholderWritten ==
    /\ \A c \in Callers :
          (PastTempFile(c) /\ stack[c][1].pc = "run"
              /\ ConverterRaises(stack[c][1].request.object_path))
          => Len(stack[c][1].documents) = 1
    /\ \A i \in IndexRuns :
          ConversionFailed(i) =>
             /\ log[i].status \in {"success", "Exception"}
             /\ log[i].status = "success" =>
                   /\ ContentOf(log[i].chunks) =
                         <<"Error processing", "pdf", "file:", ConverterError>>
                   /\ Range(log[i].chunks) \subseteq points[log[i].written_to]
                   /\ \A k \in DOMAIN log[i].chunks :
                         /\ log[i].chunks[k].doc_id = log[i].request.doc_id
                         /\ log[i].chunks[k].object_path = log[i].request.object_path
                         /\ log[i].chunks[k].doc_type = "pdf"
                         /\ log[i].chunks[k].source_file = "bad.PDF"
                         /\ log[i].chunks[k].file_size = 2

C20_Witness ==
    \E i \in IndexRunsEnded("success") :
        /\ ConversionFailed(i)
        /\ Range(log[i].chunks) \subseteq points[log[i].written_to]
        /\ Len(log[i].chunks) = 4

\* The conversion of the request extracts nothing, whatever was downloaded.
YieldsNoDocuments(r) ==
    /\ ~DownloadFails(r.object_path)
    /\ \A file_bytes \in FileVersions(r.object_path) :
          ConvertDocument(r.doc_id, r.object_path, file_bytes) = <<>>

\* The tenants all of whose requests extract nothing.
TenantsWithoutDocuments ==
    {o \in Orgs : \A r \in StageRequests : r.organization_id = o => YieldsNoDocuments(r)}

\* C25: a run whose conversion yields no document returns the error result
\* with the doc_id of the request: it raises nothing, it has obtained no
\* pipeline and written no chunk; no other run returns that result; and for
\* a tenant with such runs only, no store and no pipeline is built and no
\* collection is written.
C25_NoDocumentsIsAnErrorResult ==
    /\ \A i \in IndexRuns :
          YieldsNoDocuments(log[i].request) <=> log[i].status = "error"
    /\ \A i \in IndexRunsEnded("error") :
          /\ log[i].message = "No documents were extracted"
          /\ log[i].request.doc_id # ""
          /\ log[i].text = <<>>
          /\ log[i].object = 0
          /\ log[i].chunks = <<>>
          /\ log[i].written_to = <<>>
    /\ \A o \in TenantsWithoutDocuments :
          /\ documentStores[o] = 0
          /\ processingPipelines[o] = 0
          /\ points[CollectionName(o)] = {}
          /\ \A c \in Callers : \A k \in DOMAIN stack[c] :
                stack[c][k].organization_id = o => stack[c][k].fn = "run_indexing_pipeline"

\* The scanned document of globex ended with the error result, while a
\* document of acme was indexed.
C25_Witness ==
    /\ \E i \in IndexRunsEnded("error") :
          /\ log[i].request.doc_id = "d4"
          /\ log[i].request.object_path = "scan.pdf"
    /\ IndexRunsEnded("success") # {}
    /\ "globex" \in TenantsWithoutDocuments
    /\ tempFiles = {}

\* The calls that ended with a collection name in their result.
NamedResults ==
    {i \in DOMAIN log :
        \/ log[i].fn = "run_indexing_pipeline" /\ log[i].status = "success"
        \/ log[i].fn = "create_collection"}

\* C26: the collection name in the result of a successful indexing run and
\* of create_collection for a tenant is the prefix, "-" and the tenant; it
\* is the index of the store the call got from the registry, the collection
\* the run wrote to, and the index of every store the registry holds for the
\* tenant.
C26_ReportedNameIsTheStoreName ==
    /\ \A i \in NamedResults :
          /\ log[i].collection = <<OrganizationPrefix, "-", log[i].organization_id>>
          /\ log[i].fn = "run_indexing_pipeline" =>
                /\ log[i].collection = log[i].written_to
                /\ log[i].collection = heap[heap[log[i].object].store].index
          /\ (log[i].fn = "create_collection" /\ log[i].object # 0) =>
                log[i].collection = heap[log[i].object].index
          /\ documentStores[log[i].organization_id] # 0 =>
                log[i].collection = heap[documentStores[log[i].organization_id]].index
    /\ \A i, k \in NamedResults :
          log[i].organization_id = log[k].organization_id
             <=> log[i].collection = log[k].collection

\* An indexing run of acme, then create_collection for acme and for globex:
\* three names, two of them the same.
C26_Witness ==
    /\ Len(log) = 3
    /\ log[1].fn = "run_indexing_pipeline" /\ log[1].status = "success"
    /\ log[1].collection = <<"org", "-", "acme">>
    /\ log[2].fn = "create_collection" /\ log[2].status = "exists"
    /\ log[2].collection = log[1].written_to
    /\ log[3].fn = "create_collection" /\ log[3].organization_id = "globex"
    /\ log[3].collection = <<"org", "-", "globex">>

-----------------------------------------------------------------------------
(* Properties of the task layer.                                           *)

\* The result a failed job holds for its payload: the exception of
\* run_indexing_pipeline, whose text names the document and the cause, or
\* the ValueError of the check of organization_id.
OriginalErrorOf(payload, result) ==
    IF payload.organization_id = ""
    THEN /\ result.kind = "ValueError"
         /\ result.message = "organization_id is required for multi-tenant indexing"
    ELSE /\ result.kind = "Exception"
         /\ \E original \in OriginalErrors :
               result.text = <<"Failed to index document ", payload.doc_id, ": ", original>>

JobEnded(j) == tasks[j].state \in {"SUCCESS", "FAILURE"}

\* C21: a job is run at most once and retried at most MaxRetries times; a
\* job is marked failed only after its last retry has failed, and then holds
\* the exception that run raised, with the document and the cause in its
\* text; a job that succeeded holds the result the run returned; and from
\* some point on every dispatched job has ended, as a success (a success or
\* an error result) or as a failure, for good.
C21_RetriesBounded ==
    /\ [](\A j \in Jobs :
             /\ tasks[j].retries <= MaxRetries
             /\ tasks[j].attempts <= MaxRetries + 1
             /\ tasks[j].state = "FAILURE" =>
                   /\ tasks[j].retries = MaxRetries
                   /\ tasks[j].attempts = MaxRetries + 1
                   /\ OriginalErrorOf(tasks[j].payload, tasks[j].result)
             /\ tasks[j].state = "SUCCESS" => ReturnedResult(tasks[j].result))
    /\ <>[](\A j \in Jobs : tasks[j].state = "none" \/ JobEnded(j))

C21_Witness ==
    \E j \in Jobs :
       /\ tasks[j].state = "FAILURE"
       /\ tasks[j].attempts = MaxRetries + 1
       /\ tasks[j].result.text = <<"Failed to index document ", "d1", ": ", "embedder raises">>

\* The jobs whose payload holds no organization_id.
JobsWithoutOrganization ==
    {j \in Jobs : tasks[j].state # "none" /\ tasks[j].payload.organization_id = ""}

\* C22: a job whose payload holds no organization_id is run once and never
\* retried: no retry of it is counted or waiting, and its run makes no
\* temporary file, builds no store or pipeline and writes no chunk.
C22_MissingOrganizationNotRetried ==
    \A j \in JobsWithoutOrganization :
       /\ tasks[j].retries = 0
       /\ tasks[j].attempts <= 1
       /\ tasks[j].state # "RETRY"
       /\ tasks[j].state = "STARTED" =>
             /\ tempFiles = {}
             /\ \A i \in 1..Len(stack[Worker]) :
                   stack[Worker][i].fn = "run_indexing_pipeline"
                   /\ stack[Worker][i].pc = "start"

StartedJobs == {j \in Jobs : tasks[j].state = "STARTED"}

\* The step starts the run of job j.
RunBegins(j) == tasks[j].state # "STARTED" /\ tasks'[j].state = "STARTED"

\* C28: the worker has at most one run in progress: at most one job is
\* started, the frames and the temporary file of the worker belong to the run
\* of that job, and a run begins only when no job is started and the run
\* before it has left no frame and no temporary file behind.
C28_OneRunAtATime ==
    /\ [](/\ Cardinality(StartedJobs) <= 1
          /\ stack[Worker] # <<>> =>
                \E j \in StartedJobs : stack[Worker][1].request = tasks[j].payload
          /\ tempFiles # {} => stack[Worker] # <<>>)
    /\ [][\A j \in Jobs :
             RunBegins(j) =>
                /\ StartedJobs = {}
                /\ stack[Worker] = <<>>
                /\ tempFiles = {}
                /\ stack'[Worker][1].request = tasks[j].payload]_vars

\* Two jobs for one document: one waits for its retry while the pipeline of
\* the other runs.
C28_Witness ==
    \E i, j \in Jobs :
       /\ i # j
       /\ tasks[i].payload.doc_id = tasks[j].payload.doc_id
       /\ tasks[i].state = "RETRY"
       /\ tasks[j].state = "STARTED"
       /\ Len(stack[Worker]) = 1
       /\ stack[Worker][1].pc = "run"

-----------------------------------------------------------------------------
(* Properties of the collections.                                          *)

\* The step is remove_document_store(o), and what it returned.
Removes(o) ==
    /\ Len(log') = Len(log) + 1
    /\ log'[Len(log')].fn = "remove_document_store"
    /\ log'[Len(log')].organization_id = o

RemoveReturned == log'[Len(log')].status

Removals == {i \in DOMAIN log : log[i].fn = "remove_document_store"}

\* C23: remove_document_store(o) returns True exactly when o has an entry;
\* after it o has none, the entry of every other tenant is the one it was,
\* and the collections, their chunks, the objects built and the pipelines of
\* the tenants are as before; and a removal that follows a removal of the
\* same tenant returns False.
C23_RemoveOnlyTheEntry ==
    /\ [][\A o \in Orgs :
             Removes(o) =>
                /\ RemoveReturned = (IF documentStores[o] # 0 THEN "True" ELSE "False")
                /\ documentStores'[o] = 0
                /\ \A t \in Orgs \ {o} : documentStores'[t] = documentStores[t]
                /\ collections' = collections
                /\ points' = points
                /\ heap' = heap
                /\ processingPipelines' = processingPipelines]_vars
    /\ [](\A i \in Removals :
             (i + 1 \in Removals /\ log[i + 1].organization_id = log[i].organization_id)
                => log[i + 1].status = "False")

\* acme is indexed, its store is removed (True) and removed again (False),
\* and its chunks are in the collection as before.
C23_Witness ==
    /\ Len(log) = 3
    /\ log[1].status = "success" /\ log[1].organization_id = "acme"
    /\ log[2].fn = "remove_document_store" /\ log[2].organization_id = "acme"
    /\ log[2].status = "True"
    /\ log[3].fn = "remove_document_store" /\ log[3].organization_id = "acme"
    /\ log[3].status = "False"
    /\ points[CollectionName("acme")] = Range(log[1].chunks)
    /\ log[1].chunks # <<>>
    /\ processingPipelines["acme"] # 0

\* The step is the end of create_collection(o), and its result.
CreateCollectionEnds(o) ==
    /\ Len(log') = Len(log) + 1
    /\ log'[Len(log')].fn = "create_collection"
    /\ log'[Len(log')].organization_id = o

CreateCollectionResult == log'[Len(log')]

CreateCollectionCalls == {i \in DOMAIN log : log[i].fn = "create_collection"}

\* C24: create_collection(o) reports created when the collection of o did
\* not exist, and the collection exists afterwards; it reports that the
\* collection exists, with the number of its points, when it did; and of two
\* calls in a row for one tenant the second reports exists, with the same
\* collection name.
C24_CreatedOrExists ==
    /\ [][\A o \in Orgs :
             CreateCollectionEnds(o) =>
                /\ CreateCollectionResult.collection = CollectionName(o)
                /\ CollectionName(o) \in collections'
                /\ IF CollectionName(o) \in collections
                   THEN /\ CreateCollectionResult.status = "exists"
                        /\ CreateCollectionResult.points_count =
                              Cardinality(points[CollectionName(o)])
                   ELSE /\ CreateCollectionResult.status = "created"
                        /\ CreateCollectionResult.points_count = 0]_vars
    /\ [](\A i \in CreateCollectionCalls :
             (i + 1 \in CreateCollectionCalls
                /\ log[i + 1].organization_id = log[i].organization_id)
                => /\ log[i + 1].status = "exists"
                   /\ log[i + 1].collection = log[i].collection)

-----------------------------------------------------------------------------
(* Properties of detect_file_type (SpecDetect).                            *)

\* The map of detect_file_type has the lower-cased suffix of the path.
Recognised(path) == FileTypeMap(SuffixLower(path)) # ""

\* C32: detect_file_type returns a type for every pair of paths and never
\* fails: the type of the local file's extension when the map has it,
\* otherwise the type of the object path's extension when the map has that,
\* otherwise plain text.
C32_DetectionFallsBackToText ==
    detected.pc = "detect_file_type" =>
        /\ detected.type \in {"pdf", "txt"}
        /\ Recognised(detected.file_path) =>
              detected.type = FileTypeMap(SuffixLower(detected.file_path))
        /\ ~Recognised(detected.file_path) /\ Recognised(detected.object_path) =>
              detected.type = FileTypeMap(SuffixLower(detected.object_path))
        /\ ~Recognised(detected.file_path) /\ ~Recognised(detected.object_path) =>
              detected.type = "txt"
        /\ detected.file_path = <<"a", ".", "PDF">> => detected.type = "pdf"
        /\ detected.file_path = <<"a", ".", "txt">> => detected.type = "txt"
        /\ detected.file_path = <<"/", ".", "PDF">> /\ detected.object_path = <<"a">> =>
              detected.type = "txt"

\* The file's extension is recognised and the object path's is another one;
\* detection has returned.
C32_Witness ==
    /\ detected.pc = "detect_file_type"
    /\ detected.file_path = <<"a", ".", "txt">>
    /\ detected.object_path = <<"a", ".", "PDF">>
    /\ detected.type = "txt"

-----------------------------------------------------------------------------
(* The two layers of is_safe_query together (SpecValidator, SpecQuoting).  *)

\* C33: is_safe_query returns safe only if the rule-based check returns safe
\* for the same string, with or without a backend and whatever the backend
\* replies or raises; and the backend is consulted only for a string the rule
\* layer has passed.
C33_SemanticLayerOnlyTightens ==
    vpc = "is_safe_query" =>
        /\ verdict.safe => RuleBasedSafetyCheck(sql).safe /\ ruleVerdict.safe
        /\ llmConsulted => useLLM /\ RuleBasedSafetyCheck(sql).safe /\ ruleVerdict.safe
        /\ ~llmConsulted => llmReply = NoReply
        /\ ~useLLM /\ ~IsBlank(sql) => verdict = RuleBasedSafetyCheck(sql)

\* The rule layer passed the string, the backend was consulted and its reply
\* turned the verdict to unsafe.
C33_Witness ==
    /\ vpc = "is_safe_query"
    /\ llmConsulted
    /\ ruleVerdict.safe
    /\ ~llmReply.raises
    /\ ~verdict.safe

-----------------------------------------------------------------------------
(* The two caches of a tenant together (Spec).                             *)

\* C34: between calls of get_document_store, get_processing_pipeline and
\* remove_document_store, the processing pipeline cached for a tenant writes
\* through the document store that is cached for that tenant, whenever both
\* are cached; a removal followed by a new get_document_store included.
C34_PipelineWritesToCachedStore ==
    stack[Worker] = <<>> =>
        \A o \in Orgs :
            (processingPipelines[o] # 0 /\ documentStores[o] # 0)
                => heap[processingPipelines[o]].store = documentStores[o]

\* A step of a get-or-create call of the worker for tenant o: its entry, one
\* of its steps, or its end.
GetOrCreateStepFor(o) ==
    \/ /\ stack[Worker] # <<>>
       /\ stack[Worker][1].fn \in GetOrCreate
       /\ stack[Worker][1].organization_id = o
    \/ /\ stack'[Worker] # <<>>
       /\ stack'[Worker][1].fn \in GetOrCreate
       /\ stack'[Worker][1].organization_id = o

\* The get-or-create calls that ended for a tenant whose collection is
\* missing while auto creation is off.
FailedCreations ==
    {i \in DOMAIN log : log[i].fn \in GetOrCreate /\ CollectionMissing(log[i].organization_id)}

\* C35: a get-or-create call for a tenant whose store cannot be created
\* leaves the registry as it was: no step of it changes the store cache, the
\* cache of processing pipelines, the cache of query pipelines or the objects
\* built; and every such call, the first and each later one, reaches the
\* creation and raises its error.
C35_FailedCreationLeavesNoEntry ==
    /\ [][\A o \in Orgs :
             (CollectionMissing(o) /\ GetOrCreateStepFor(o)) =>
                /\ documentStores' = documentStores
                /\ processingPipelines' = processingPipelines
                /\ queryPipelines' = queryPipelines
                /\ heap' = heap]_vars
    /\ [](\A i \in FailedCreations :
             /\ log[i].status = "ValueError"
             /\ log[i].message = "Collection does not exist"
             /\ documentStores[log[i].organization_id] = 0
             /\ processingPipelines[log[i].organization_id] = 0)

\* With auto creation off, acme has its store; get_processing_pipeline and
\* then get_document_store for globex have both raised, and globex has no
\* entry.
C35_Witness ==
    /\ ~autoCreate
    /\ documentStores["acme"] # 0
    /\ documentStores["globex"] = 0
    /\ processingPipelines["globex"] = 0
    /\ \E i, j \in FailedCreations :
          /\ i < j
          /\ log[i].fn = "get_processing_pipeline"
          /\ log[j].fn = "get_document_store"
          /\ log[i].organization_id = "globex"
          /\ log[j].organization_id = "globex"
          /\ log[j].status = "ValueError"

-----------------------------------------------------------------------------
(* Constructing the singletons again (SpecSingletons).                     *)

\* The class was constructed before: a constructor call for it has returned,
\* or it was built when the process started.
ConstructedBefore(k) ==
    \/ \E i \in DOMAIN made : made[i].cls = k
    \/ k = "QueryPipelinesFactory"

\* A step of a constructor call for class k.
ConstructStepOf(k) == construct.cls = k \/ construct'.cls = k

\* C36: constructing IndexingPipelinesFactory, QueryPipelinesFactory or
\* DocumentStoreManager again returns the object of the first construction
\* and leaves every cached entry of every tenant as it was, so a cached
\* processing pipeline or store stays cached whatever is constructed after.
C36_ConstructingAgainKeepsEntries ==
    /\ [][\A k \in Singletons :
             (ConstructedBefore(k) /\ ConstructStepOf(k)) =>
                /\ instance'[k] = instance[k]
                /\ initialized'[k] = initialized[k]
                /\ documentStores' = documentStores
                /\ processingPipelines' = processingPipelines
                /\ queryPipelines' = queryPipelines
                /\ heap' = heap]_vars
    /\ [](\A i, j \in DOMAIN made :
             made[i].cls = made[j].cls =>
                /\ made[i].object = made[j].object
                /\ made[i].object = instance[made[i].cls])
    /\ [][\A o \in Orgs :
             /\ processingPipelines[o] # 0 => processingPipelines'[o] = processingPipelines[o]
             /\ documentStores[o] # 0 => documentStores'[o] = documentStores[o]]_vars

\* acme's processing pipeline is cached and IndexingPipelinesFactory, which
\* was constructed before, has been constructed again: the call is about to
\* return the same object and the pipeline is still cached.
C36_Witness ==
    /\ construct.pc = "return"
    /\ construct.cls = "IndexingPipelinesFactory"
    /\ \E i \in DOMAIN made :
          /\ made[i].cls = "IndexingPipelinesFactory"
          /\ made[i].object = construct.self
    /\ processingPipelines["acme"] # 0
    /\ heap[processingPipelines["acme"]].store = documentStores["acme"]

-----------------------------------------------------------------------------
(* What execute_query hands back (SpecQuery).                              *)

UnsafeSqlRejections ==
    {"SQL query failed safety validation", "Generated SQL query failed safety validation"}

\* C37: execute_query always returns a QueryResponse: for a run that raised,
\* whatever raised, the answer begins with "Error executing query: " and
\* holds the message of the exception (and its reason, when it has one); for
\* a run that answered, the answer is the reply.
C37_FailuresBecomeResponses ==
    qrun.response.kind # "" =>
        /\ qrun.response.kind = "QueryResponse"
        /\ qrun.status = "raised" =>
              /\ qrun.response.answer[1] = "Error executing query: "
              /\ \E i \in 2..Len(qrun.response.answer) :
                    qrun.response.answer[i] = qrun.error.message
              /\ qrun.error.reason # "" =>
                    \E i \in 2..Len(qrun.response.answer) :
                       qrun.response.answer[i] = qrun.error.reason
        /\ qrun.status = "answer" => qrun.response.answer = <<qrun.answer>>

\* A run in which the SQL was rejected as unsafe has been answered with the
\* error text.
C37_Witness ==
    /\ qrun.pc = "done"
    /\ qrun.status = "raised"
    /\ qrun.error.message \in UnsafeSqlRejections
    /\ qrun.response.kind = "QueryResponse"
    /\ qrun.response.answer[1] = "Error executing query: "

=============================================================================
